---------------------------- MODULE Spec2Model ----------------------------
(***************************************************************************)
(* A model of the calibration-tower G-code rewriter:                       *)
(*   calibration_tower/gcode.py                 (command catalog, codec)   *)
(*   calibration_tower/calibration_processor.py (printer state, height     *)
(*                                   detector, processors, pipeline)       *)
(*   calibration_tower/script.py                (processor configuration)  *)
(*                                                                         *)
(* Text is modelled as sequences of one-character strings, so that         *)
(* split, strip, join, number parsing and number formatting are computed   *)
(* as the code computes them.  Numbers are fixed-point: a value is a       *)
(* record [t, n] with t the Python type ("int", "float", "none") and n     *)
(* the value in millionths.                                                *)
(***************************************************************************)
EXTENDS Integers, Sequences, FiniteSets, TLC

(***************************************************************************)
(* Bounds of the model.                                                    *)
(***************************************************************************)
\* lines fed to one run of process_data
MaxLines == 3
\* blocks (groups) in the input list of one run
MaxBlocks == 2
\* lines fed to one run in the end-to-end scenario
MaxE2ELines == 4
\* argument tokens after the code on a generated codec line
MaxTokens == 2
\* keyword arguments given to GCodeCommand.new
MaxKwargs == 2
\* lines fed to one run in the retraction scenarios
MaxTrackLines == 4
\* blocks in the input list of one run in the retraction scenarios
MaxTrackBlocks == 1

\* lines fed to one run with the layer detector in the step scenarios
MaxLayerLines == 3
\* lines fed to one run with the millimetre detector in the step scenarios
MaxHeightLines == 4
\* lines fed to one run with every processor configured
MaxAllLines == 3
\* lines fed to one run in the scenarios of lines the head cannot parse
MaxHeadLines == 3

(***************************************************************************)
(* Characters and text.                                                    *)
(***************************************************************************)
Digits == {"0", "1", "2", "3", "4", "5", "6", "7", "8", "9"}

DigitChars == <<"0", "1", "2", "3", "4", "5", "6", "7", "8", "9">>

DigitVal(c) == CHOOSE d \in 0..9 : DigitChars[d + 1] = c

\* the characters str.strip() removes that occur in the model's inputs
Whitespace == {" ", "\t"}

Last(s) == s[Len(s)]

Drop(s, k) == SubSeq(s, k + 1, Len(s))

RECURSIVE LStrip(_)
LStrip(s) ==
    IF s # <<>> /\ Head(s) \in Whitespace THEN LStrip(Tail(s)) ELSE s

RECURSIVE RStrip(_)
RStrip(s) ==
    IF s # <<>> /\ Last(s) \in Whitespace
    THEN RStrip(SubSeq(s, 1, Len(s) - 1))
    ELSE s

\* str.strip()
Strip(s) == RStrip(LStrip(s))

\* str.split(sep) for a one-character separator: always at least one piece
RECURSIVE SplitFrom(_, _, _, _)
SplitFrom(s, sep, i, cur) ==
    IF i > Len(s) THEN <<cur>>
    ELSE IF s[i] = sep THEN <<cur>> \o SplitFrom(s, sep, i + 1, <<>>)
    ELSE SplitFrom(s, sep, i + 1, Append(cur, s[i]))

Split(s, sep) == SplitFrom(s, sep, 1, <<>>)

\* sep.join(parts)
RECURSIVE Join(_, _)
Join(parts, sep) ==
    IF parts = <<>> THEN <<>>
    ELSE IF Len(parts) = 1 THEN parts[1]
    ELSE parts[1] \o sep \o Join(Tail(parts), sep)

\* [t for t in parts if t]
RECURSIVE NonEmpty(_)
NonEmpty(parts) ==
    IF parts = <<>> THEN <<>>
    ELSE IF Head(parts) = <<>> THEN NonEmpty(Tail(parts))
    ELSE <<Head(parts)>> \o NonEmpty(Tail(parts))

IsPrefix(p, s) == Len(p) <= Len(s) /\ SubSeq(s, 1, Len(p)) = p

(***************************************************************************)
(* Numbers.                                                                *)
(***************************************************************************)
Abs(k) == IF k < 0 THEN -k ELSE k

RECURSIVE Pow10(_)
Pow10(k) == IF k = 0 THEN 1 ELSE 10 * Pow10(k - 1)

\* GCodeCommand.PRECISION: the decimals a formatted argument keeps
PRECISION == 5

\* the fixed-point unit: one decimal more than PRECISION, so that rounding shows
SCALE == Pow10(PRECISION + 1)

NoneVal == [t |-> "none", n |-> 0]

IntVal(k) == [t |-> "int", n |-> k * SCALE]

FloatVal(micro) == [t |-> "float", n |-> micro]

AllDigits(s) == s # <<>> /\ \A i \in 1..Len(s) : s[i] \in Digits

RECURSIVE DigitsVal(_)
DigitsVal(s) ==
    IF s = <<>> THEN 0
    ELSE 10 * DigitsVal(SubSeq(s, 1, Len(s) - 1)) + DigitVal(Last(s))

RECURSIVE NatStr(_)
NatStr(k) ==
    IF k < 10 THEN <<DigitChars[k + 1]>>
    ELSE Append(NatStr(k \div 10), DigitChars[(k % 10) + 1])

HasSign(s) == s # <<>> /\ Head(s) \in {"-", "+"}

Unsigned(s) == IF HasSign(s) THEN Tail(s) ELSE s

SignOf(s) == IF s # <<>> /\ Head(s) = "-" THEN -1 ELSE 1

\* int(text): an optional sign and decimal digits; anything else is a ValueError
IntParses(s) == AllDigits(Unsigned(s))

IntParse(s) == [t |-> "int", n |-> SignOf(s) * DigitsVal(Unsigned(s)) * SCALE]

\* the mantissa of a float literal: digits, optionally a point and digits
MantissaOk(m) ==
    LET p == Split(m, ".")
    IN  /\ Len(p) \in {1, 2}
        /\ \A i \in 1..Len(p) : \A j \in 1..Len(p[i]) : p[i][j] \in Digits
        /\ \E i \in 1..Len(p) : p[i] # <<>>

\* the mantissa in millionths (digits past the sixth decimal are dropped)
MantissaMicro(m) ==
    LET p == Split(m, ".")
        frac == IF Len(p) = 2 THEN p[2] ELSE <<>>
        six == SubSeq(frac \o <<"0", "0", "0", "0", "0", "0">>, 1, 6)
    IN  DigitsVal(p[1]) * SCALE + DigitsVal(six)

\* float(text): sign, mantissa and an optional exponent e[+-]digits
FloatParses(s) ==
    LET p == Split(Unsigned(s), "e")
    IN  /\ Len(p) \in {1, 2}
        /\ MantissaOk(p[1])
        /\ Len(p) = 2 => IntParses(p[2])

FloatParse(s) ==
    LET p == Split(Unsigned(s), "e")
        m == MantissaMicro(p[1])
        x == IF Len(p) = 2 THEN SignOf(p[2]) * DigitsVal(Unsigned(p[2])) ELSE 0
        v == IF x >= 0 THEN m * Pow10(x) ELSE m \div Pow10(-x)
    IN  [t |-> "float", n |-> SignOf(s) * v]

\* round(v, 5) of a float, in millionths: to the nearest multiple of 10, a tie
\* to the even one
Round5(n) ==
    LET a == Abs(n)
        q == a \div 10
        r == a % 10
        up == r > 5 \/ (r = 5 /\ q % 2 = 1)
        m == 10 * (IF up THEN q + 1 ELSE q)
    IN  IF n < 0 THEN -m ELSE m

RECURSIVE StripZeros(_)
StripZeros(s) ==
    IF Len(s) > 1 /\ Last(s) = "0" THEN StripZeros(SubSeq(s, 1, Len(s) - 1)) ELSE s

Pad6(s) == SubSeq(<<"0", "0", "0", "0", "0", "0">>, 1, 6 - Len(s)) \o s

\* repr of a float that is a multiple of 0.00001: positional, with at least one
\* decimal, except below 0.0001 where Python writes <digit>e-05
FloatStr(n) ==
    LET a == Abs(n)
        sign == IF n < 0 THEN <<"-">> ELSE <<>>
    IN  IF 0 < a /\ a < 100
        THEN sign \o NatStr(a \div 10) \o <<"e", "-", "0", "5">>
        ELSE sign \o NatStr(a \div SCALE) \o <<".">>
                  \o StripZeros(Pad6(NatStr(a % SCALE)))

IntStr(n) ==
    (IF n < 0 THEN <<"-">> ELSE <<>>) \o NatStr(Abs(n) \div SCALE)

\* int(x) of a number: truncation toward zero
Trunc(n) ==
    IF n < 0 THEN -((Abs(n) \div SCALE) * SCALE) ELSE (n \div SCALE) * SCALE

\* floor division of two numbers in millionths; the result is a whole number
FloorDiv(a, b) == IF b > 0 THEN a \div b ELSE (-a) \div (-b)

(***************************************************************************)
(* Command catalog (GCodeDescr).                                           *)
(***************************************************************************)
Arg(name, kind) == [name |-> name, kind |-> kind]

MotionArguments ==
    <<Arg("F", "float"), Arg("X", "float"), Arg("Y", "float"),
      Arg("Z", "float"), Arg("E", "float")>>

LINEAR_MOTION_COMMAND ==
    [code |-> <<"G", "0">>, arguments |-> MotionArguments]

LINEAR_MOTION_EXTRUDED_COMMAND ==
    [code |-> <<"G", "1">>, arguments |-> MotionArguments]

SET_HOTENT_TEMP_COMMAND ==
    [code |-> <<"M", "1", "0", "4">>,
     arguments |-> <<Arg("B", "int"), Arg("F", "none"), Arg("I", "int"),
                     Arg("S", "int"), Arg("T", "int")>>]

SET_FLOW_COMMAND ==
    [code |-> <<"M", "2", "2", "1">>,
     arguments |-> <<Arg("S", "int"), Arg("T", "int")>>]

SET_FEEDRATE_COMMAND ==
    [code |-> <<"M", "2", "2", "0">>,
     arguments |-> <<Arg("S", "int"), Arg("B", "none"), Arg("R", "none")>>]

SET_FAN_SPEED_COMMAND ==
    [code |-> <<"M", "1", "0", "6">>,
     arguments |-> <<Arg("I", "int"), Arg("P", "int"), Arg("S", "int"),
                     Arg("T", "int")>>]

SET_LINEAR_ADVANCE_FACTOR ==
    [code |-> <<"M", "9", "0", "0">>,
     arguments |-> <<Arg("K", "float"), Arg("L", "float"), Arg("S", "int"),
                     Arg("T", "int")>>]

\* the descriptor attributes of class GCodeDescr, in the order dir() lists
\* them (sorted by name); a name is written as its words between underscores
Attributes ==
    <<[attr |-> <<"LINEAR", "MOTION", "COMMAND">>,
       descr |-> LINEAR_MOTION_COMMAND],
      [attr |-> <<"LINEAR", "MOTION", "EXTRUDED", "COMMAND">>,
       descr |-> LINEAR_MOTION_EXTRUDED_COMMAND],
      [attr |-> <<"SET", "FAN", "SPEED", "COMMAND">>,
       descr |-> SET_FAN_SPEED_COMMAND],
      [attr |-> <<"SET", "FEEDRATE", "COMMAND">>,
       descr |-> SET_FEEDRATE_COMMAND],
      [attr |-> <<"SET", "FLOW", "COMMAND">>,
       descr |-> SET_FLOW_COMMAND],
      [attr |-> <<"SET", "HOTENT", "TEMP", "COMMAND">>,
       descr |-> SET_HOTENT_TEMP_COMMAND],
      [attr |-> <<"SET", "LINEAR", "ADVANCE", "FACTOR">>,
       descr |-> SET_LINEAR_ADVANCE_FACTOR]>>

\* param.endswith('_COMMAND')
EndsWithCommand(attr) == Len(attr) > 1 /\ Last(attr) = "COMMAND"

RECURSIVE DescrsOf(_)
DescrsOf(attrs) ==
    IF attrs = <<>> THEN <<>>
    ELSE (IF EndsWithCommand(Head(attrs).attr)
          THEN <<Head(attrs).descr>> ELSE <<>>) \o DescrsOf(Tail(attrs))

get_all_commands == DescrsOf(Attributes)

\* Python's None where a descriptor is expected
NoDescr == [code |-> <<>>, arguments |-> <<>>]

RECURSIVE FirstWithCode(_, _)
FirstWithCode(cmds, code) ==
    IF cmds = <<>> THEN NoDescr
    ELSE IF Head(cmds).code = code THEN Head(cmds)
    ELSE FirstWithCode(Tail(cmds), code)

\* GCodeDescr.get(code)
get(code) == FirstWithCode(get_all_commands, code)

ArgNames(descr) ==
    {descr.arguments[i].name : i \in 1..Len(descr.arguments)}

KindOf(descr, name) ==
    descr.arguments[CHOOSE i \in 1..Len(descr.arguments) :
                        descr.arguments[i].name = name].kind

(***************************************************************************)
(* Commands (GCodeCommand).  args is the dict in insertion order: a        *)
(* sequence of [k, v] with distinct k.  code <<>> is None.                  *)
(***************************************************************************)
GCodeCommand(code, args, comment) ==
    [code |-> code, args |-> args, comment |-> comment]

NoCommand == GCodeCommand(<<>>, <<>>, <<>>)

Returned(cmd) == [ok |-> TRUE, err |-> "", cmd |-> cmd]

Raised(err) == [ok |-> FALSE, err |-> err, cmd |-> NoCommand]

\* the GCodeCommand.command property
CommandOf(cmd) == IF cmd.code = <<>> THEN NoDescr ELSE get(cmd.code)

ArgKeys(args) == {args[i].k : i \in 1..Len(args)}

ArgGet(args, k) == args[CHOOSE i \in 1..Len(args) : args[i].k = k].v

\* args[k] = v: a present key keeps its place, a new key goes last
ArgSet(args, k, v) ==
    IF k \in ArgKeys(args)
    THEN [i \in 1..Len(args) |->
            IF args[i].k = k THEN [k |-> k, v |-> v] ELSE args[i]]
    ELSE Append(args, [k |-> k, v |-> v])

\* _type(given_value) for one token of the line
ConvertToken(kind, t) ==
    LET given_value == Tail(t)
    IN  IF kind = "none" THEN [ok |-> TRUE, err |-> "", v |-> NoneVal]
        ELSE IF given_value = <<>>
        THEN [ok |-> FALSE, err |-> "TypeError", v |-> NoneVal]
        ELSE IF kind = "int"
        THEN (IF IntParses(given_value)
              THEN [ok |-> TRUE, err |-> "", v |-> IntParse(given_value)]
              ELSE [ok |-> FALSE, err |-> "ValueError", v |-> NoneVal])
        ELSE (IF FloatParses(given_value)
              THEN [ok |-> TRUE, err |-> "", v |-> FloatParse(given_value)]
              ELSE [ok |-> FALSE, err |-> "ValueError", v |-> NoneVal])

\* the index of the last token whose first character is name, or 0: the loop
\* over the tokens without its break
LastToken(tokens, name) ==
    IF \E i \in 1..Len(tokens) : tokens[i][1] = name
    THEN CHOOSE i \in 1..Len(tokens) :
            /\ tokens[i][1] = name
            /\ \A j \in (i + 1)..Len(tokens) : tokens[j][1] # name
    ELSE 0

\* the index of the first token whose first character is name, or 0
FirstToken(tokens, name) ==
    IF \E i \in 1..Len(tokens) : tokens[i][1] = name
    THEN CHOOSE i \in 1..Len(tokens) :
            /\ tokens[i][1] = name
            /\ \A j \in 1..(i - 1) : tokens[j][1] # name
    ELSE 0

\* the loop over command.arguments in parse: the schema's arguments in the
\* schema's order, each taking the first token that starts with its letter
RECURSIVE ParseArgs(_, _, _)
ParseArgs(arguments, tokens, args) ==
    IF arguments = <<>> THEN [ok |-> TRUE, err |-> "", args |-> args]
    ELSE LET a == Head(arguments)
             i == FirstToken(tokens, a.name)
             c == ConvertToken(a.kind, tokens[i])
         IN  IF i = 0 THEN ParseArgs(Tail(arguments), tokens, args)
             ELSE IF ~c.ok THEN [ok |-> FALSE, err |-> c.err, args |-> <<>>]
             ELSE ParseArgs(Tail(arguments), tokens,
                            ArgSet(args, a.name, c.v))

\* the end of parse: return GCodeCommand(code, args, comment), unless a
\* conversion raised
parse_return(code, comment, parsed) ==
    IF ~parsed.ok THEN Raised(parsed.err)
    ELSE Returned(GCodeCommand(code, parsed.args, comment))

\* parse_command with one error for both failures: a code outside the
\* catalog is reported as an invalid line
parse_command_one_error(code, command, arg_tokens, comment) ==
    IF command = NoDescr THEN Raised("InvalidLine")
    ELSE parse_return(code, comment,
                      ParseArgs(command.arguments, arg_tokens, <<>>))

\* parse from the catalog lookup on: command is GCodeDescr.get(code)
parse_command(code, command, arg_tokens, comment) ==
    IF command = NoDescr THEN Raised("UnsupportedCommand")
    ELSE parse_return(code, comment,
                      ParseArgs(command.arguments, arg_tokens, <<>>))

\* parse once the tokens and the comment are known
parse_tokens(tokens, comment) ==
    IF tokens = <<>> THEN Returned(GCodeCommand(<<>>, <<>>, comment))
    ELSE parse_command(tokens[1], get(tokens[1]), Tail(tokens), comment)

\* parse on command_tokens = line.split(';'): the tokens are the non-empty
\* pieces of command_tokens[0] between spaces, the comment is
\* ' '.join(command_tokens[1:])
parse_split(command_tokens) ==
    parse_tokens(NonEmpty(Split(command_tokens[1], " ")),
                 Join(Tail(command_tokens), <<" ">>))

\* GCodeCommand.parse(line)
parse(line) ==
    IF line = <<>> THEN Returned(NoCommand)
    ELSE IF line[1] \notin {"G", "M", ";"} THEN Raised("InvalidLine")
    ELSE parse_split(Split(line, ";"))

\* str(round(v, GCodeCommand.PRECISION))
ValueStr(v) == IF v.t = "int" THEN IntStr(v.n) ELSE FloatStr(Round5(v.n))

RECURSIVE ArgsStr(_)
ArgsStr(args) ==
    IF args = <<>> THEN <<>>
    ELSE <<" ", Head(args).k>> \o ValueStr(Head(args).v) \o ArgsStr(Tail(args))

\* GCodeCommand.__str__: the arguments in the order the dict holds them;
\* round() of a None value is a TypeError
str(cmd) ==
    IF \E i \in 1..Len(cmd.args) : cmd.args[i].v.t = "none"
    THEN [ok |-> FALSE, err |-> "TypeError", text |-> <<>>]
    ELSE [ok |-> TRUE, err |-> "",
          text |-> cmd.code \o ArgsStr(cmd.args)
                   \o (IF cmd.comment # <<>> THEN <<";">> \o cmd.comment
                       ELSE <<>>)]

\* GCodeCommand.new(command, comment, **kwargs); kwargs in call order
RECURSIVE NewArgs(_, _, _)
NewArgs(command, kwargs, result_args) ==
    IF kwargs = <<>> THEN [ok |-> TRUE, err |-> "", args |-> result_args]
    ELSE LET kw == Head(kwargs)
         IN  IF kw.k \notin ArgNames(command)
             THEN [ok |-> FALSE, err |-> "InvalidArgument", args |-> <<>>]
             ELSE IF kw.v.t # KindOf(command, kw.k)
             THEN [ok |-> FALSE, err |-> "InvalidArgument", args |-> <<>>]
             ELSE NewArgs(command, Tail(kwargs),
                          ArgSet(result_args, kw.k, kw.v))

\* new checking the letters of the keyword arguments and not their kinds
new_letters_only(command, comment, kwargs) ==
    IF \A i \in 1..Len(kwargs) : kwargs[i].k \in ArgNames(command)
    THEN Returned(GCodeCommand(command.code, kwargs, comment))
    ELSE Raised("InvalidArgument")

new(command, comment, kwargs) ==
    LET r == NewArgs(command, kwargs, <<>>)
    IN  IF r.ok THEN Returned(GCodeCommand(command.code, r.args, comment))
        ELSE Raised(r.err)

(***************************************************************************)
(* Retraction tracker and printer head (calibration_processor.py).         *)
(***************************************************************************)
\* Retraction.__init__
RetractionInit ==
    [last_e |-> 0, e |-> 0, last_retract |-> 0, state |-> "NONE"]

\* Retraction.handle_new_line
handle_new_line(r) ==
    IF r.state = "PRIMING" THEN [r EXCEPT !.state = "JUST_PRIMED"]
    ELSE IF r.state = "JUST_PRIMED" THEN [r EXCEPT !.state = "NONE"]
    ELSE r

\* Retraction._update_e
update_e(r, new_e) == [r EXCEPT !.last_e = r.e, !.e = new_e]

\* handle_linear_motion comparing on every G1 move that carries E, whether
\* or not it carries X, Y or Z
handle_linear_motion_any_move(r, cmd) ==
    IF CommandOf(cmd) # LINEAR_MOTION_EXTRUDED_COMMAND THEN r
    ELSE LET keys == ArgKeys(cmd.args)
             r1 == IF "E" \in keys THEN update_e(r, ArgGet(cmd.args, "E").n)
                   ELSE r
         IN  IF "E" \in keys
             THEN IF r1.last_e > r1.e
                  THEN [r1 EXCEPT !.state = "RETRACTING",
                                  !.last_retract = r1.last_e - r1.e]
                  ELSE IF r1.last_e < r1.e
                  THEN [r1 EXCEPT !.state = "PRIMING"]
                  ELSE r1
             ELSE r1

\* Retraction.handle_linear_motion
handle_linear_motion(r, cmd) ==
    IF CommandOf(cmd) # LINEAR_MOTION_EXTRUDED_COMMAND THEN r
    ELSE LET keys == ArgKeys(cmd.args)
             r1 == IF "E" \in keys THEN update_e(r, ArgGet(cmd.args, "E").n)
                   ELSE r
         IN  IF keys \cap {"X", "Y", "Z"} = {} /\ "E" \in keys
             THEN IF r1.last_e > r1.e
                  THEN [r1 EXCEPT !.state = "RETRACTING",
                                  !.last_retract = r1.last_e - r1.e]
                  ELSE IF r1.last_e < r1.e
                  THEN [r1 EXCEPT !.state = "PRIMING"]
                  ELSE r1
             ELSE r1

\* PrinterHead.__init__: every field starts as the int 0
PrinterHeadInit ==
    [x |-> IntVal(0), y |-> IntVal(0), z |-> IntVal(0), e |-> IntVal(0),
     feedrate |-> IntVal(0), temp |-> IntVal(0), retraction |-> RetractionInit]

\* PrinterHead._handle_linear_motion
head_linear_motion(head, args) ==
    LET keys == ArgKeys(args)
        pick(k, old) == IF k \in keys THEN ArgGet(args, k) ELSE old
    IN  [head EXCEPT !.x = pick("X", head.x),
                     !.y = pick("Y", head.y),
                     !.z = pick("Z", head.z),
                     !.e = pick("E", head.e),
                     !.feedrate = pick("F", head.feedrate)]

\* PrinterHead._handle_set_hotend_temp
head_set_hotend_temp(head, args) ==
    IF "S" \in ArgKeys(args) THEN [head EXCEPT !.temp = ArgGet(args, "S")]
    ELSE head

\* the try block of PrinterHead.handle on p, the outcome of parse(line): an
\* exception leaves the head as the edge step left it
head_dispatch(h1, p) ==
    IF ~p.ok THEN h1
    ELSE IF CommandOf(p.cmd) \in {LINEAR_MOTION_COMMAND,
                                  LINEAR_MOTION_EXTRUDED_COMMAND}
    THEN [head_linear_motion(h1, p.cmd.args) EXCEPT
             !.retraction = handle_linear_motion(h1.retraction, p.cmd)]
    ELSE IF CommandOf(p.cmd) = SET_HOTENT_TEMP_COMMAND
    THEN head_set_hotend_temp(h1, p.cmd.args)
    ELSE h1

\* head_handle with the edge step inside the try block, after the parse: a
\* line that fails to parse leaves the phase as it was
head_handle_edge_in_try(head, line) ==
    IF parse(line).ok
    THEN head_dispatch([head EXCEPT
                           !.retraction = handle_new_line(head.retraction)],
                       parse(line))
    ELSE head

\* PrinterHead.handle: the edge step, then a parse whose every exception is
\* swallowed by the bare except
head_handle(head, line) ==
    head_dispatch([head EXCEPT !.retraction = handle_new_line(head.retraction)],
                  parse(line))

(***************************************************************************)
(* Height detector.  offset and step_size are in millionths; count and     *)
(* current_step are whole numbers; a layer is <<>> (None) or <<index>>.    *)
(***************************************************************************)
\* HeightDetector.__init__ / MillimeterHeightDetector.__init__
HeightDetector(variant, offset, step_size, count) ==
    [variant |-> variant, offset |-> offset, step_size |-> step_size,
     count |-> count, just_reached_new_step |-> FALSE, current_step |-> 0,
     last_z |-> 0]

Max(a, b) == IF a > b THEN a ELSE b

Min(a, b) == IF a < b THEN a ELSE b

\* normalize rounding down: result // step
normalize_floor(current, offset, step) ==
    FloorDiv(Max(0, current - offset + SCALE), step)

\* HeightDetector.normalize, for step # 0
normalize(current, offset, step) ==
    FloorDiv(Max(0, current - offset + SCALE) + step - SCALE, step)

\* calculate_step whose millimetre variant, on a line that leaves Z alone,
\* gives step 0 instead of the step it holds
calculate_step_forgets(det, head, layer) ==
    IF det.variant = "layer"
    THEN [step |-> normalize(layer[1] * SCALE, det.offset, det.step_size),
          last_z |-> det.last_z]
    ELSE IF head.z.n # det.last_z
    THEN [step |-> normalize(head.z.n, det.offset, det.step_size),
          last_z |-> head.z.n]
    ELSE [step |-> 0, last_z |-> det.last_z]

\* _calculate_step of the two variants: the step, and last_z as it leaves it
calculate_step(det, head, layer) ==
    IF det.variant = "layer"
    THEN [step |-> normalize(layer[1] * SCALE, det.offset, det.step_size),
          last_z |-> det.last_z]
    ELSE IF head.z.n # det.last_z
    THEN [step |-> normalize(head.z.n, det.offset, det.step_size),
          last_z |-> head.z.n]
    ELSE [step |-> det.current_step, last_z |-> det.last_z]

\* whether _calculate_step divides, and so raises when step_size is 0
Divides(det, head) == det.variant = "layer" \/ head.z.n # det.last_z

\* detector_handle that, with no layer known, resets the step and leaves
\* the edge flag as the line before left it
detector_handle_keeps_flag(det, head, layer) ==
    IF layer = <<>>
    THEN [ok |-> TRUE, det |-> [det EXCEPT !.current_step = 0]]
    ELSE IF det.step_size = 0 /\ Divides(det, head)
    THEN [ok |-> FALSE,
          det |-> [det EXCEPT !.just_reached_new_step = FALSE,
                              !.last_z = IF det.variant = "mm" THEN head.z.n
                                         ELSE @]]
    ELSE LET c == calculate_step(det, head, layer)
             step == Min(c.step, det.count)
         IN  [ok |-> TRUE,
              det |-> [det EXCEPT
                         !.just_reached_new_step = (step # det.current_step),
                         !.current_step = step,
                         !.last_z = c.last_z]]

\* detector_handle without min(step, self._count)
detector_handle_unclamped(det, head, layer) ==
    IF layer = <<>>
    THEN [ok |-> TRUE,
          det |-> [det EXCEPT !.just_reached_new_step = FALSE,
                              !.current_step = 0]]
    ELSE IF det.step_size = 0 /\ Divides(det, head)
    THEN [ok |-> FALSE,
          det |-> [det EXCEPT !.just_reached_new_step = FALSE,
                              !.last_z = IF det.variant = "mm" THEN head.z.n
                                         ELSE @]]
    ELSE LET c == calculate_step(det, head, layer)
         IN  [ok |-> TRUE,
              det |-> [det EXCEPT
                         !.just_reached_new_step = (c.step # det.current_step),
                         !.current_step = c.step,
                         !.last_z = c.last_z]]

\* detector_handle that, with no layer known, clears the edge flag and
\* leaves the step as the line before left it
detector_handle_keeps_step(det, head, layer) ==
    IF layer = <<>>
    THEN [ok |-> TRUE, det |-> [det EXCEPT !.just_reached_new_step = FALSE]]
    ELSE IF det.step_size = 0 /\ Divides(det, head)
    THEN [ok |-> FALSE,
          det |-> [det EXCEPT !.just_reached_new_step = FALSE,
                              !.last_z = IF det.variant = "mm" THEN head.z.n
                                         ELSE @]]
    ELSE LET c == calculate_step(det, head, layer)
             step == Min(c.step, det.count)
         IN  [ok |-> TRUE,
              det |-> [det EXCEPT
                         !.just_reached_new_step = (step # det.current_step),
                         !.current_step = step,
                         !.last_z = c.last_z]]

\* HeightDetector.handle
detector_handle(det, head, layer) ==
    IF layer = <<>>
    THEN [ok |-> TRUE,
          det |-> [det EXCEPT !.just_reached_new_step = FALSE,
                              !.current_step = 0]]
    ELSE IF det.step_size = 0 /\ Divides(det, head)
    THEN [ok |-> FALSE,
          det |-> [det EXCEPT !.just_reached_new_step = FALSE,
                              !.last_z = IF det.variant = "mm" THEN head.z.n
                                         ELSE @]]
    ELSE LET c == calculate_step(det, head, layer)
             step == Min(c.step, det.count)
         IN  [ok |-> TRUE,
              det |-> [det EXCEPT
                         !.just_reached_new_step = (step # det.current_step),
                         !.current_step = step,
                         !.last_z = c.last_z]]

(***************************************************************************)
(* Processors.  A processor is [kind, start, step], start and step in      *)
(* millionths; a marker is [lines_before, line, lines_after].              *)
(***************************************************************************)
Marker(line) == [lines_before |-> <<>>, line |-> line, lines_after |-> <<>>]

Handled(marker) == [ok |-> TRUE, err |-> "", marker |-> marker]

HandleRaised(err, marker) == [ok |-> FALSE, err |-> err, marker |-> marker]

OneShotKinds == {"Speed", "Flow", "HotendTemp", "Fan", "LinearAdvance"}

RewriteKinds == {"PrintSpeed", "RetractionLength", "RetractionSpeed"}

\* Processor.__init__; RetractionSpeedProcessor scales both by 60.0
Processor(kind, start, step) ==
    IF kind = "RetractionSpeed"
    THEN [kind |-> kind, start |-> start * 60, step |-> step * 60]
    ELSE [kind |-> kind, start |-> start, step |-> step]

\* _get_current_value counting the steps from 0 instead of 1
get_current_value_from_zero(proc, current_step) ==
    proc.start + current_step * proc.step

\* Processor._get_current_value
get_current_value(proc, current_step) ==
    proc.start + (current_step - 1) * proc.step

\* int(min(100, value) / 100 * 255), in millionths
FanScale(value) ==
    LET m == Min(100 * SCALE, value)
        q == ((Abs(m) \div 100) * 255) \div SCALE
    IN  IF m < 0 THEN -(q * SCALE) ELSE q * SCALE

\* _create_command of the SingleCommandProcessor subclasses
create_command(kind, value) ==
    LET int_value == [t |-> "int", n |-> Trunc(value)]
        S(v) == <<[k |-> "S", v |-> v]>>
        cmd ==
            CASE kind = "HotendTemp" ->
                    new(SET_HOTENT_TEMP_COMMAND, <<>>, S(int_value))
              [] kind = "Flow" ->
                    new(SET_FLOW_COMMAND, <<>>, S(int_value))
              [] kind = "Speed" ->
                    new(SET_FEEDRATE_COMMAND, <<>>, S(int_value))
              [] kind = "Fan" ->
                    new(SET_FAN_SPEED_COMMAND, <<>>,
                        S([t |-> "int", n |-> FanScale(value)]))
              [] kind = "LinearAdvance" ->
                    new(SET_LINEAR_ADVANCE_FACTOR, <<>>,
                        <<[k |-> "K", v |-> FloatVal(value)]>>)
    IN  str(cmd.cmd).text

\* single_command_handle inserting on every line of a step, not only on
\* the line on which the step is reached
single_command_handle_every_line(proc, marker, det, head) ==
    IF det.current_step # 0
    THEN Handled([marker EXCEPT !.lines_before =
            Append(@, create_command(proc.kind,
                                     get_current_value(proc, det.current_step)))])
    ELSE Handled(marker)

\* SingleCommandProcessor.handle
single_command_handle(proc, marker, det, head) ==
    IF det.just_reached_new_step
    THEN Handled([marker EXCEPT !.lines_before =
            Append(@, create_command(proc.kind,
                                     get_current_value(proc, det.current_step)))])
    ELSE Handled(marker)

\* a * b for two non-negative numbers in millionths, computed in parts that
\* stay within 32-bit integers
MulMicro(a, b) ==
    LET ah == a \div SCALE
        al == a % SCALE
        bh == b \div SCALE
        bl == b % SCALE
        alh == al \div 1000
        all == al % 1000
        blh == bl \div 1000
        bll == bl % 1000
    IN  ah * bh * SCALE + ah * bl + al * bh + alh * blh
        + ((alh * bll + all * blh) * 1000 + all * bll) \div SCALE

\* head.feedrate / 100 * value, in millionths
ScaledFeedrate(feedrate, value) ==
    LET m == MulMicro(Abs(feedrate) \div 100, Abs(value))
    IN  IF (feedrate < 0) # (value < 0) THEN -m ELSE m

\* print_speed_rewrite taking every linear motion, G0 as well as G1
print_speed_rewrite_any_motion(proc, marker, det, head, p) ==
    LET state == head.retraction.state
        f == FloatVal(ScaledFeedrate(head.feedrate.n,
                         get_current_value(proc, det.current_step)))
        cmd == [p.cmd EXCEPT !.args = ArgSet(@, "F", f)]
    IN  IF ~p.ok THEN HandleRaised(p.err, marker)
        ELSE IF /\ CommandOf(p.cmd) \in {LINEAR_MOTION_COMMAND,
                                         LINEAR_MOTION_EXTRUDED_COMMAND}
                /\ \/ state = "JUST_PRIMED"
                   \/ state = "NONE" /\ "F" \in ArgKeys(p.cmd.args)
        THEN Handled([marker EXCEPT !.line = str(cmd).text])
        ELSE Handled(marker)

\* print_speed_rewrite without the test for F: in phase NONE every G1 line
\* is rewritten, whether or not it carries F
print_speed_rewrite_every_line(proc, marker, det, head, p) ==
    LET state == head.retraction.state
        f == FloatVal(ScaledFeedrate(head.feedrate.n,
                         get_current_value(proc, det.current_step)))
        cmd == [p.cmd EXCEPT !.args = ArgSet(@, "F", f)]
    IN  IF ~p.ok THEN HandleRaised(p.err, marker)
        ELSE IF /\ CommandOf(p.cmd) = LINEAR_MOTION_EXTRUDED_COMMAND
                /\ state \in {"JUST_PRIMED", "NONE"}
        THEN Handled([marker EXCEPT !.line = str(cmd).text])
        ELSE Handled(marker)

\* PrintSpeedProcessor.handle from the parse on: p is the outcome of
\* GCodeCommand.parse(marker.line), whose exception nothing catches
print_speed_rewrite(proc, marker, det, head, p) ==
    LET state == head.retraction.state
        f == FloatVal(ScaledFeedrate(head.feedrate.n,
                         get_current_value(proc, det.current_step)))
        cmd == [p.cmd EXCEPT !.args = ArgSet(@, "F", f)]
    IN  IF ~p.ok THEN HandleRaised(p.err, marker)
        ELSE IF /\ CommandOf(p.cmd) = LINEAR_MOTION_EXTRUDED_COMMAND
                /\ \/ state = "JUST_PRIMED"
                   \/ state = "NONE" /\ "F" \in ArgKeys(p.cmd.args)
        THEN Handled([marker EXCEPT !.line = str(cmd).text])
        ELSE Handled(marker)

\* PrintSpeedProcessor.handle
print_speed_handle(proc, marker, det, head) ==
    IF det.current_step = 0 THEN Handled(marker)
    ELSE print_speed_rewrite(proc, marker, det, head, parse(marker.line))

\* retraction_length_rewrite measuring from the position the retraction
\* reached, leaving out the last retraction length
retraction_length_rewrite_from_head(proc, marker, det, head, p) ==
    LET e == FloatVal(head.e.n - get_current_value(proc, det.current_step))
        cmd == [p.cmd EXCEPT !.args = ArgSet(@, "E", e)]
    IN  IF ~p.ok THEN HandleRaised(p.err, marker)
        ELSE IF /\ CommandOf(p.cmd) = LINEAR_MOTION_EXTRUDED_COMMAND
                /\ head.retraction.state = "RETRACTING"
        THEN Handled([marker EXCEPT !.line = str(cmd).text])
        ELSE Handled(marker)

\* RetractionLengthProcessor.handle from the parse on
retraction_length_rewrite(proc, marker, det, head, p) ==
    LET e == FloatVal(head.e.n + head.retraction.last_retract
                      - get_current_value(proc, det.current_step))
        cmd == [p.cmd EXCEPT !.args = ArgSet(@, "E", e)]
    IN  IF ~p.ok THEN HandleRaised(p.err, marker)
        ELSE IF /\ CommandOf(p.cmd) = LINEAR_MOTION_EXTRUDED_COMMAND
                /\ head.retraction.state = "RETRACTING"
        THEN Handled([marker EXCEPT !.line = str(cmd).text])
        ELSE Handled(marker)

\* RetractionLengthProcessor.handle
retraction_length_handle(proc, marker, det, head) ==
    IF det.current_step = 0 THEN Handled(marker)
    ELSE retraction_length_rewrite(proc, marker, det, head,
                                   parse(marker.line))

\* retraction_speed_rewrite acting in phase JUST_PRIMED as well
retraction_speed_rewrite_just_primed(proc, marker, det, head, p, restore) ==
    LET f == FloatVal(get_current_value(proc, det.current_step))
        cmd == [p.cmd EXCEPT !.args = ArgSet(@, "F", f)]
        rewritten == [marker EXCEPT !.line = str(cmd).text]
    IN  IF ~p.ok THEN HandleRaised(p.err, marker)
        ELSE IF /\ CommandOf(p.cmd) = LINEAR_MOTION_EXTRUDED_COMMAND
                /\ head.retraction.state
                      \in {"RETRACTING", "PRIMING", "JUST_PRIMED"}
        THEN IF restore.ok
             THEN Handled([rewritten EXCEPT !.lines_after =
                               Append(@, str(restore.cmd).text)])
             ELSE HandleRaised(restore.err, rewritten)
        ELSE Handled(marker)

\* RetractionSpeedProcessor.handle from the parse on; restore is the outcome
\* of GCodeCommand.new(LINEAR_MOTION_EXTRUDED_COMMAND, F=head.feedrate)
retraction_speed_rewrite(proc, marker, det, head, p, restore) ==
    LET f == FloatVal(get_current_value(proc, det.current_step))
        cmd == [p.cmd EXCEPT !.args = ArgSet(@, "F", f)]
        rewritten == [marker EXCEPT !.line = str(cmd).text]
    IN  IF ~p.ok THEN HandleRaised(p.err, marker)
        ELSE IF /\ CommandOf(p.cmd) = LINEAR_MOTION_EXTRUDED_COMMAND
                /\ head.retraction.state \in {"RETRACTING", "PRIMING"}
        THEN IF restore.ok
             THEN Handled([rewritten EXCEPT !.lines_after =
                               Append(@, str(restore.cmd).text)])
             ELSE HandleRaised(restore.err, rewritten)
        ELSE Handled(marker)

\* RetractionSpeedProcessor.handle
retraction_speed_handle(proc, marker, det, head) ==
    IF det.current_step = 0 THEN Handled(marker)
    ELSE retraction_speed_rewrite(proc, marker, det, head, parse(marker.line),
            new(LINEAR_MOTION_EXTRUDED_COMMAND, <<>>,
                <<[k |-> "F", v |-> head.feedrate]>>))

\* processor.handle(marker, height_detector, head), by the processor's class
processor_handle(proc, marker, det, head) ==
    CASE proc.kind \in OneShotKinds ->
            single_command_handle(proc, marker, det, head)
      [] proc.kind = "PrintSpeed" ->
            print_speed_handle(proc, marker, det, head)
      [] proc.kind = "RetractionLength" ->
            retraction_length_handle(proc, marker, det, head)
      [] proc.kind = "RetractionSpeed" ->
            retraction_speed_handle(proc, marker, det, head)

\* for processor in self.processors: processor.handle(...); the first
\* exception ends the loop
RECURSIVE run_processors(_, _, _, _)
run_processors(procs, marker, det, head) ==
    IF procs = <<>> THEN Handled(marker)
    ELSE LET r == processor_handle(Head(procs), marker, det, head)
         IN  IF r.ok THEN run_processors(Tail(procs), r.marker, det, head)
             ELSE r

(***************************************************************************)
(* Configuration (script.py).  settings is the flat mapping the host       *)
(* supplies: the detector's parameters, the set of enabled flags, and      *)
(* ramps, which gives each processor kind its value and step settings.     *)
(***************************************************************************)
\* CalibrationTower._create_height_detector
create_height_detector(st) ==
    IF st.step_type = "mm"
    THEN HeightDetector("mm", st.start_mm, st.step_mm, st.step_count)
    ELSE HeightDetector("layer", st.start_lc * SCALE, st.step_lc * SCALE,
                        st.step_count)

\* the processors of CalibrationTower._create_processor, in its order
create_processors(st) ==
    LET on(flag, kind) ==
            IF flag \in st.enabled
            THEN <<Processor(kind, st.ramps[kind].value, st.ramps[kind].step)>>
            ELSE <<>>
    IN  on("change_speed_enabled", "Speed")
        \o on("change_print_speed_enabled", "PrintSpeed")
        \o on("change_flow_enabled", "Flow")
        \o on("change_hotend_temp_enabled", "HotendTemp")
        \o on("change_fan_enabled", "Fan")
        \o on("change_linear_advance_enabled", "LinearAdvance")
        \o (IF "change_retract_enabled" \in st.enabled
            THEN on("change_retract_length_enabled", "RetractionLength")
                 \o on("change_retract_speed_enabled", "RetractionSpeed")
            ELSE <<>>)

(***************************************************************************)
(* The pipeline (CalibrationProcessor).                                    *)
(***************************************************************************)
LayerPrefix == <<";", "L", "A", "Y", "E", "R", ":">>

RECURSIVE LeadingDigits(_)
LeadingDigits(s) ==
    IF s # <<>> /\ Head(s) \in Digits
    THEN <<Head(s)>> \o LeadingDigits(Tail(s))
    ELSE <<>>

\* CalibrationProcessor._check_layer: re.match(r'^;LAYER:(\d+)', line)
check_layer(line) ==
    LET digits == LeadingDigits(Drop(line, Len(LayerPrefix)))
    IN  IF IsPrefix(LayerPrefix, line) /\ digits # <<>>
        THEN <<DigitsVal(digits)>>
        ELSE <<>>

\* lines_before + [line] + lines_after
MarkerLines(marker) ==
    marker.lines_before \o <<marker.line>> \o marker.lines_after

\* the block text without the newline that ends it
BlockTextUnterminated(lines) == Join(lines, <<"\n">>)

\* '\n'.join(new_lines) + '\n'
BlockText(lines) == Join(lines, <<"\n">>) \o <<"\n">>

\* the end of an iteration: r is the outcome of the loop over the processors
line_result(layer1, head1, det1, r) ==
    [ok |-> r.ok, err |-> r.err, layer |-> layer1, head |-> head1,
     det |-> det1, marker |-> r.marker]

\* the iteration after self.height_detector.handle(...), whose outcome is d
line_after_detector(line, layer1, head1, d, procs) ==
    IF ~d.ok
    THEN [ok |-> FALSE, err |-> "ZeroDivisionError", layer |-> layer1,
          head |-> head1, det |-> d.det, marker |-> Marker(line)]
    ELSE line_result(layer1, head1, d.det,
                     run_processors(procs, Marker(line), d.det, head1))

\* the iteration after self.head.handle(line), which leaves head1
line_after_head(line, layer1, head1, det, procs) ==
    line_after_detector(line, layer1, head1,
                        detector_handle(det, head1, layer1), procs)

\* process_line calling the detector with the head as the line before left
\* it: self.height_detector.handle before self.head.handle
process_line_detector_first(line, layer, head, det, procs) ==
    line_after_detector(line,
                        IF layer = <<>> THEN check_layer(line) ELSE layer,
                        head_handle(head, line),
                        detector_handle(det, head,
                            IF layer = <<>> THEN check_layer(line) ELSE layer),
                        procs)

\* process_line reading the layer from every layer comment, not only while
\* no layer is known
process_line_last_marker(line, layer, head, det, procs) ==
    line_after_head(line,
                    IF check_layer(line) # <<>> THEN check_layer(line)
                    ELSE layer,
                    head_handle(head, line), det, procs)

\* the body of the inner loop of process_data for one stripped, non-blank
\* line: what it leaves in the layer, the head, the detector and the marker
process_line(line, layer, head, det, procs) ==
    line_after_head(line, IF layer = <<>> THEN check_layer(line) ELSE layer,
                    head_handle(head, line), det, procs)

(***************************************************************************)
(* Inputs of the pipeline: raw lines, as group.split('\n') yields them.    *)
(***************************************************************************)
LineLayer1 == <<";", "L", "A", "Y", "E", "R", ":", "1">>

LineLayer3 == <<";", "L", "A", "Y", "E", "R", ":", "3">>

\* a printing move that sets the feed rate
LinePrint ==
    <<"G", "1", " ", "F", "1", "2", "0", "0", " ", "X", "1", " ", "E", "1">>

\* a filament-only move
LinePrime == <<"G", "1", " ", "E", "2">>

\* a travel move
LineTravel == <<"G", "0", " ", "F", "6", "0", "0", " ", "X", "5">>

\* a line parse rejects as invalid
LineTool == <<"T", "0">>

\* a catalog command inside whitespace
LineTemp == <<" ", " ", "M", "1", "0", "4", " ", "S", "2", "0", "0", "\t">>

\* a blank line
LineBlank == <<" ", "\t">>

LineMoveA == <<"G", "1", " ", "X", "1", " ", "E", "1">>

LineMoveB == <<"G", "1", " ", "X", "2", " ", "E", "2">>

\* a printing move at feed rate 900 that leaves the filament at 20
LineFill ==
    <<"G", "1", " ", "F", "9", "0", "0", " ", "X", "1", " ", "E", "2", "0">>

\* a filament-only move to 15, at feed rate 1500
LineRetract ==
    <<"G", "1", " ", "F", "1", "5", "0", "0", " ", "E", "1", "5">>

\* a filament-only move to 20
LineUnretract == <<"G", "1", " ", "E", "2", "0">>

\* a Z-hop: a G1 move without filament
LineHop == <<"G", "1", " ", "Z", "1">>

\* a G0 move that carries E alone
LineFeed == <<"G", "0", " ", "E", "5">>

LineLayer0 == <<";", "L", "A", "Y", "E", "R", ":", "0">>

LineLayer2 == <<";", "L", "A", "Y", "E", "R", ":", "2">>

LineLayer10 == <<";", "L", "A", "Y", "E", "R", ":", "1", "0">>

\* a move to Z = 3
LineZ3 == <<"G", "1", " ", "Z", "3">>

\* the step scenarios with the layer detector: blocks of layers 0, 1, 2, 3
\* and 10 in any order, and a line that is not a layer comment
LayerLines ==
    {LineLayer0, LineLayer1, LineLayer2, LineLayer3, LineLayer10, LineMoveA}

\* the step scenarios with the millimetre detector: a layer comment, a move
\* that leaves Z alone, and moves to Z = 1 and Z = 3 in any order
HeightLines == {LineLayer1, LineMoveA, LineHop, LineZ3}

TrackLines ==
    {LineLayer3, LineFill, LineRetract, LineUnretract, LineHop, LineFeed}

PipeLines ==
    {LineLayer1, LinePrint, LinePrime, LineTravel, LineTool, LineTemp,
     LineBlank}

E2ELines == {LineLayer1, LineLayer3, LineMoveA, LineMoveB}

\* the value and step settings of each processor kind, in millionths
Ramps ==
    [kind \in OneShotKinds \cup RewriteKinds |->
        CASE kind = "HotendTemp" -> [value |-> 190 * SCALE, step |-> 10 * SCALE]
          [] kind = "LinearAdvance" -> [value |-> 200000, step |-> 100000]
          [] kind = "RetractionLength" -> [value |-> 6 * SCALE, step |-> 500000]
          [] kind = "RetractionSpeed" -> [value |-> 20 * SCALE, step |-> 5 * SCALE]
          [] OTHER -> [value |-> 100 * SCALE, step |-> 10 * SCALE]]

Settings(step_type, start, step, count, enabled) ==
    [step_type |-> step_type, start_mm |-> start, step_mm |-> step,
     start_lc |-> start, step_lc |-> step, step_count |-> count,
     enabled |-> enabled, ramps |-> Ramps]

OneShotFlags ==
    {"change_speed_enabled", "change_flow_enabled",
     "change_hotend_temp_enabled", "change_fan_enabled",
     "change_linear_advance_enabled"}

RewriteFlags ==
    {"change_print_speed_enabled", "change_retract_enabled",
     "change_retract_length_enabled", "change_retract_speed_enabled"}

\* the end-to-end scenario: layer steps of one layer from layer 1, five
\* steps, the hotend temperature alone
E2ESettings == Settings("layer", 1, 1, 5, {"change_hotend_temp_enabled"})

\* layer steps of one layer from layer 1, the print speed alone
TrackSettings == {Settings("layer", 1, 1, 5, {"change_print_speed_enabled"})}

\* layer steps of one layer from layer 1, one retraction processor at a time
RetractSettings ==
    {Settings("layer", 1, 1, 5,
              {"change_retract_enabled", "change_retract_length_enabled"}),
     Settings("layer", 1, 1, 5,
              {"change_retract_enabled", "change_retract_speed_enabled"})}

\* the step scenarios: layer steps of two layers from layer 1, five steps,
\* with every one-shot processor; of one layer from layer 2, two steps; of
\* minus one layer; millimetre steps of 1 mm from 1 mm, two steps; of
\* 0.5 mm from 2 mm, five steps; and of 0 mm
StepSettings ==
    {Settings("layer", 1, 2, 5, OneShotFlags),
     Settings("layer", 2, 1, 2, {"change_hotend_temp_enabled"}),
     Settings("layer", 1, -1, 5, {"change_hotend_temp_enabled"}),
     Settings("mm", SCALE, SCALE, 2, {"change_hotend_temp_enabled"}),
     Settings("mm", 2 * SCALE, 500000, 5, {"change_hotend_temp_enabled"}),
     Settings("mm", SCALE, 0, 5, {"change_hotend_temp_enabled"})}

\* a code the catalog does not hold
LineReset == <<"G", "9", "2", " ", "E", "0">>

\* a G1 line whose X is a number and whose E is not
LineBadValue == <<"G", "1", " ", "X", "7", " ", "E", "a">>

\* a G1 line whose Z has no value
LineNoValue == <<"G", "1", " ", "F", "6", "0", "0", " ", "Z">>

\* lines the head follows (a prime, a printing move, a temperature) and
\* lines parse rejects: an invalid line, an unsupported code, a bad value and
\* a missing value
HeadLines ==
    {LinePrime, LineFill, LineTemp, LineTool, LineReset, LineBadValue,
     LineNoValue}

\* a print with a Z move, a printing move at feed rate 900, a retraction at
\* feed rate 1500 and a prime that carries no feed rate
AllLines == {LineLayer1, LineHop, LineFill, LineRetract, LineUnretract}

\* millimetre steps of 1 mm from 1 mm and layer steps of one layer from
\* layer 1, each with every processor, and the millimetre steps with the
\* hotend temperature alone and with no processor at all
AllSettings ==
    {Settings("mm", SCALE, SCALE, 2, OneShotFlags \cup RewriteFlags),
     Settings("layer", 1, 1, 5, OneShotFlags \cup RewriteFlags),
     Settings("mm", SCALE, SCALE, 2, {"change_hotend_temp_enabled"}),
     Settings("mm", SCALE, SCALE, 2, {})}

\* the settings with the fan ramp given
WithFanRamp(st, value, step) ==
    [st EXCEPT !.ramps =
        [Ramps EXCEPT !["Fan"] = [value |-> value, step |-> step]]]

\* layer steps of one layer from layer 1 with the fan alone: from 100
\* percent by 10, from 50 percent by 30, and from 10 percent by -10
FanSettings ==
    {Settings("layer", 1, 1, 5, {"change_fan_enabled"}),
     WithFanRamp(Settings("layer", 1, 1, 5, {"change_fan_enabled"}),
                 50 * SCALE, 30 * SCALE),
     WithFanRamp(Settings("layer", 1, 1, 5, {"change_fan_enabled"}),
                 10 * SCALE, -10 * SCALE)}

\* the arguments of the calls of normalize: heights or layer indices,
\* offsets and step sizes, in millionths, every one a multiple of 0.25
NormCurrents ==
    {0, 250000, 500000, SCALE, 1500000, 2 * SCALE, 3 * SCALE, 5500000,
     10 * SCALE}

NormOffsets == {0, 500000, SCALE, 5 * SCALE}

NormSteps == {250000, 500000, SCALE, 1500000, 2 * SCALE, 5 * SCALE}

PipeSettings ==
    {Settings("layer", 1, 2, 5, OneShotFlags),
     Settings("layer", 1, 0, 5, {"change_hotend_temp_enabled"}),
     Settings("layer", 1, 1, 5, {"change_print_speed_enabled"}),
     Settings("layer", 1, 1, 5, RewriteFlags),
     Settings("mm", 500000, 500000, 5, OneShotFlags \cup RewriteFlags)}

(***************************************************************************)
(* Inputs of the codec: lines put together from a code, argument tokens    *)
(* and a comment, and the keyword arguments of GCodeCommand.new.           *)
(***************************************************************************)
UnknownCode == <<"M", "9", "9", "9">>

LineCodes ==
    {LINEAR_MOTION_COMMAND.code, LINEAR_MOTION_EXTRUDED_COMMAND.code,
     SET_HOTENT_TEMP_COMMAND.code, SET_FEEDRATE_COMMAND.code,
     SET_LINEAR_ADVANCE_FACTOR.code, UnknownCode}

TokenPool ==
    <<<<"F", "1", "0">>,
      <<"E", "2", "0">>,
      <<"X", "1", "0">>,
      <<"X", "5">>,
      <<"Y", "0", ".", "1", "2", "3", "4", "5", "6">>,
      <<"S", "1", "9", "0">>,
      <<"F">>,
      <<"Q", "1">>>>

CommentExample ==
    <<";", " ", "w", "h", "a", "t", " ", "i", "s", " ", "t", "h", "a", "t">>

CommentTwice == <<";", "a", ";", "b">>

LineComments == {<<>>, CommentExample, CommentTwice}

\* the sequences of at most n distinct indexes into a pool of size p
DistinctSeqs(p, n) ==
    {q \in UNION {[1..m -> 1..p] : m \in 0..n} :
        \A a, b \in 1..Len(q) : a # b => q[a] # q[b]}

LineInput(lead, code, toks, comment) ==
    [lead |-> lead, code |-> code, toks |-> toks, comment |-> comment]

GeneratedLines ==
    {LineInput(<<>>, code, [i \in 1..Len(q) |-> TokenPool[q[i]]], comment) :
        code \in LineCodes,
        q \in DistinctSeqs(Len(TokenPool), MaxTokens),
        comment \in LineComments}

WordSome == <<"s", "o", "m", "e">>

WordLine == <<"l", "i", "n", "e">>

CommentOnly ==
    <<";", "S", "o", "m", "e", " ", "C", "o", "m", "m", "e", "n", "t", " ", "l", "i", "n", "e">>

SpecialLines ==
    {LineInput(<<>>, <<>>, <<>>, <<>>),
     LineInput(<<>>, <<>>, <<>>, CommentOnly),
     LineInput(<<>>, <<>>, <<>>, <<";">>),
     LineInput(<<>>, <<>>, <<>>, CommentTwice),
     LineInput(<<>>, WordSome, <<WordLine>>, <<>>),
     LineInput(<<>>, <<"T", "0">>, <<>>, <<>>),
     LineInput(<<>>, <<"M">>, <<>>, CommentExample),
     LineInput(<<" ">>, LINEAR_MOTION_EXTRUDED_COMMAND.code,
               <<TokenPool[3]>>, <<>>),
     LineInput(<<" ">>, WordSome, <<>>, <<>>)}

CodecLines == GeneratedLines \cup SpecialLines

RECURSIVE SpacedTokens(_)
SpacedTokens(toks) ==
    IF toks = <<>> THEN <<>>
    ELSE <<" ">> \o Head(toks) \o SpacedTokens(Tail(toks))

\* the text of a line input
LineOf(inp) ==
    inp.lead \o inp.code \o SpacedTokens(inp.toks) \o inp.comment

AllDescrs == {Attributes[i].descr : i \in 1..Len(Attributes)}

\* a float with six decimals, an int, and None
KwValues == {FloatVal(123456), IntVal(190), NoneVal}

\* the keyword arguments tried on a descriptor: its own letters and one
\* letter no schema has, each with every value, at most n of them, in every
\* call order
KwargsOf(descr, n) ==
    LET pairs == {[k |-> k, v |-> v] :
                    k \in ArgNames(descr) \cup {"Q"}, v \in KwValues}
    IN  {q \in UNION {[1..m -> pairs] : m \in 0..n} :
            \A a, b \in 1..Len(q) : a # b => q[a].k # q[b].k}

NewComments == {<<>>, <<"h", "e", "h">>}

(***************************************************************************)
(* State.                                                                  *)
(***************************************************************************)
VARIABLES
    pc,               \* where process_data is: "group" (between groups),
                      \* "line" (inside a group), "returned", "raised"
    error,            \* the exception that ended the run, "" if none
    data,             \* the input read so far: per group, its raw lines
    new_data,         \* process_data's new_data: the output blocks
    new_lines,        \* process_data's new_lines of the current group
    current_layer,    \* process_data's current_layer: <<>> or <<index>>
    head,             \* CalibrationProcessor.head
    height_detector,  \* CalibrationProcessor.height_detector
    processors,       \* CalibrationProcessor.processors
    trace,            \* history: per group, the marker of each line emitted
    tower,            \* the CalibrationTower script: the settings it reads
    entry,            \* history: per group, the head and the detector as
                      \* they were when the group began
    first,            \* <<>> during the first call of execute; in a second
                      \* call, <<the data and the outcome of the first>>
    codec,            \* a codec session: a command parsed or built, then
                      \* formatted, parsed again and formatted again
    calc              \* a call of HeightDetector.normalize: its arguments
                      \* and what it returned

vars ==
    <<pc, error, data, new_data, new_lines, current_layer, head,
      height_detector, processors, trace, tower, entry, first, codec,
      calc>>

pipeVars ==
    <<pc, error, data, new_data, new_lines, current_layer, head,
      height_detector, processors, trace, tower, entry, first>>

NoText == [ok |-> FALSE, err |-> "", text |-> <<>>]

NoResult == [ok |-> FALSE, err |-> "", cmd |-> NoCommand]

CodecIdle ==
    [stage |-> "idle", origin |-> "none",
     line |-> LineInput(<<>>, <<>>, <<>>, <<>>),
     descr |-> NoDescr, kwargs |-> <<>>, comment |-> <<>>,
     added |-> FALSE,
     cmd |-> NoResult, text |-> NoText, cmd2 |-> NoResult, text2 |-> NoText]

\* no call of normalize yet
CalcIdle == [stage |-> "idle", current |-> 0, offset |-> 0, step |-> 0,
             result |-> 0]

\* CalibrationTower.execute up to the call of process_data:
\* CalibrationProcessor.__init__ on what _create_processor builds
InitWith(settings) ==
    /\ pc = "group"
    /\ error = ""
    /\ data = <<>>
    /\ new_data = <<>>
    /\ new_lines = <<>>
    /\ current_layer = <<>>
    /\ head = PrinterHeadInit
    /\ tower \in settings
    /\ height_detector = create_height_detector(tower)
    /\ processors = create_processors(tower)
    /\ trace = <<>>
    /\ entry = <<>>
    /\ first = <<>>
    /\ codec = CodecIdle
    /\ calc = CalcIdle

RECURSIVE TotalLines(_)
TotalLines(groups) ==
    IF groups = <<>> THEN 0 ELSE Len(Head(groups)) + TotalLines(Tail(groups))

(***************************************************************************)
(* process_data, one step per iteration of its loops.                      *)
(***************************************************************************)
\* the start of a group that leaves current_layer as the group before left it
StartGroupKeepsLayer ==
    /\ pc = "group"
    /\ Len(data) < MaxBlocks
    /\ pc' = "line"
    /\ data' = Append(data, <<>>)
    /\ trace' = Append(trace, <<>>)
    /\ entry' = Append(entry, [head |-> head, det |-> height_detector])
    /\ new_lines' = <<>>
    /\ UNCHANGED <<error, new_data, current_layer, head, height_detector,
                   processors, tower, first, codec, calc>>

\* the start of a group that starts the head and the detector afresh
StartGroupResetsState ==
    /\ pc = "group"
    /\ Len(data) < MaxBlocks
    /\ pc' = "line"
    /\ data' = Append(data, <<>>)
    /\ trace' = Append(trace, <<>>)
    /\ entry' = Append(entry, [head |-> head, det |-> height_detector])
    /\ new_lines' = <<>>
    /\ current_layer' = <<>>
    /\ head' = PrinterHeadInit
    /\ height_detector' = create_height_detector(tower)
    /\ UNCHANGED <<error, new_data, processors, tower, first, codec, calc>>

\* for group in data: new_lines = []; current_layer = None
StartGroup ==
    /\ pc = "group"
    /\ Len(data) < MaxBlocks
    /\ pc' = "line"
    /\ data' = Append(data, <<>>)
    /\ trace' = Append(trace, <<>>)
    /\ entry' = Append(entry, [head |-> head, det |-> height_detector])
    /\ new_lines' = <<>>
    /\ current_layer' = <<>>
    /\ UNCHANGED <<error, new_data, head, height_detector, processors, tower,
                   first, codec, calc>>

\* for line in group.split('\n'): one iteration, on the raw line raw
ProcessLine(raw) ==
    /\ pc = "line"
    /\ data' = [data EXCEPT ![Len(data)] = Append(@, raw)]
    /\ IF Strip(raw) = <<>>
       THEN UNCHANGED <<pc, error, new_lines, current_layer, head,
                        height_detector, trace>>
       ELSE \E r \in {process_line(Strip(raw), current_layer, head,
                                   height_detector, processors)} :
               /\ current_layer' = r.layer
               /\ head' = r.head
               /\ height_detector' = r.det
               /\ IF r.ok
                  THEN /\ new_lines' = new_lines \o MarkerLines(r.marker)
                       /\ trace' = [trace EXCEPT ![Len(data)] =
                                                    Append(@, r.marker)]
                       /\ UNCHANGED <<pc, error>>
                  ELSE /\ pc' = "raised"
                       /\ error' = r.err
                       /\ UNCHANGED <<new_lines, trace>>
    /\ UNCHANGED <<new_data, processors, tower, entry, first, codec, calc>>

\* new_data.append('\n'.join(new_lines) + '\n')
EndGroup ==
    /\ pc = "line"
    /\ pc' = "group"
    /\ new_data' = Append(new_data, BlockText(new_lines))
    /\ UNCHANGED <<error, data, new_lines, current_layer, head,
                   height_detector, processors, trace, tower, entry, first,
                   codec, calc>>

\* return new_data
Return ==
    /\ pc = "group"
    /\ pc' = "returned"
    /\ UNCHANGED <<error, data, new_data, new_lines, current_layer, head,
                   height_detector, processors, trace, tower, entry, first,
                   codec, calc>>

(***************************************************************************)
(* A second call of execute on the same data: _create_processor builds a   *)
(* new CalibrationProcessor, with a new head, detector and processors, and *)
(* process_data reads the blocks the first call read.                      *)
(***************************************************************************)
\* a second call that keeps the CalibrationProcessor of the first, with its
\* head and its detector
ExecuteAgainSameProcessor ==
    /\ first = <<>>
    /\ pc \in {"returned", "raised"}
    /\ first' = <<[data |-> data, new_data |-> new_data, pc |-> pc,
                   error |-> error]>>
    /\ pc' = "group"
    /\ error' = ""
    /\ data' = <<>>
    /\ new_data' = <<>>
    /\ new_lines' = <<>>
    /\ current_layer' = <<>>
    /\ trace' = <<>>
    /\ entry' = <<>>
    /\ UNCHANGED <<head, height_detector, processors, tower, codec, calc>>

\* execute(data) once more: self._create_processor().process_data(data)
ExecuteAgain ==
    /\ first = <<>>
    /\ pc \in {"returned", "raised"}
    /\ first' = <<[data |-> data, new_data |-> new_data, pc |-> pc,
                   error |-> error]>>
    /\ pc' = "group"
    /\ error' = ""
    /\ data' = <<>>
    /\ new_data' = <<>>
    /\ new_lines' = <<>>
    /\ current_layer' = <<>>
    /\ head' = PrinterHeadInit
    /\ height_detector' = create_height_detector(tower)
    /\ processors' = create_processors(tower)
    /\ trace' = <<>>
    /\ entry' = <<>>
    /\ UNCHANGED <<tower, codec, calc>>

\* the second call: for group in data, on the next block of the first call
ReplayGroup ==
    /\ first # <<>>
    /\ Len(data) < Len(first[1].data)
    /\ StartGroup

\* the second call: one iteration on the next line of the block
ReplayLine ==
    /\ first # <<>>
    /\ pc = "line"
    /\ Len(data[Len(data)]) < Len(first[1].data[Len(data)])
    /\ ProcessLine(first[1].data[Len(data)][Len(data[Len(data)]) + 1])

\* the second call: the block has no more lines
ReplayEnd ==
    /\ first # <<>>
    /\ pc = "line"
    /\ Len(data[Len(data)]) = Len(first[1].data[Len(data)])
    /\ Len(first[1].new_data) >= Len(data)
    /\ EndGroup

\* the second call: data has no more blocks
ReplayReturn ==
    /\ first # <<>>
    /\ Len(data) = Len(first[1].data)
    /\ first[1].pc = "returned"
    /\ Return

(***************************************************************************)
(* The codec session.                                                      *)
(***************************************************************************)
\* GCodeCommand.parse on an input line
CodecParse(inp) ==
    /\ codec.stage = "idle"
    /\ codec' = [codec EXCEPT !.stage = "cmd", !.origin = "parse",
                              !.line = inp, !.cmd = parse(LineOf(inp))]
    /\ UNCHANGED <<pipeVars, calc>>

\* GCodeCommand.new
CodecNew(descr, comment, kwargs) ==
    /\ codec.stage = "idle"
    /\ codec' = [codec EXCEPT !.stage = "cmd", !.origin = "new",
                              !.descr = descr, !.comment = comment,
                              !.kwargs = kwargs,
                              !.cmd = new(descr, comment, kwargs)]
    /\ UNCHANGED <<pipeVars, calc>>

\* cmd.args[k] = v on a parsed G1 command, as the rewriting processors do
CodecSetArg(k, v) ==
    /\ codec.stage = "cmd"
    /\ codec.origin = "parse"
    /\ codec.cmd.ok
    /\ ~codec.added
    /\ CommandOf(codec.cmd.cmd) = LINEAR_MOTION_EXTRUDED_COMMAND
    /\ codec' = [codec EXCEPT !.added = TRUE,
                              !.cmd.cmd.args = ArgSet(@, k, v)]
    /\ UNCHANGED <<pipeVars, calc>>

\* str(command)
CodecStr ==
    /\ codec.stage = "cmd"
    /\ codec.cmd.ok
    /\ codec' = [codec EXCEPT !.stage = "text", !.text = str(codec.cmd.cmd)]
    /\ UNCHANGED <<pipeVars, calc>>

\* GCodeCommand.parse on the formatted text
CodecReparse ==
    /\ codec.stage = "text"
    /\ codec.text.ok
    /\ codec' = [codec EXCEPT !.stage = "cmd2",
                              !.cmd2 = parse(codec.text.text)]
    /\ UNCHANGED <<pipeVars, calc>>

\* str(command) of the command parsed back
CodecStrAgain ==
    /\ codec.stage = "cmd2"
    /\ codec.cmd2.ok
    /\ codec' = [codec EXCEPT !.stage = "text2",
                              !.text2 = str(codec.cmd2.cmd)]
    /\ UNCHANGED <<pipeVars, calc>>

(***************************************************************************)
(* A call of normalize by itself.                                          *)
(***************************************************************************)
\* self.normalize(current, offset, step)
NormalizeCall(current, offset, step) ==
    /\ calc.stage = "idle"
    /\ calc' = [stage |-> "done", current |-> current, offset |-> offset,
                step |-> step, result |-> normalize(current, offset, step)]
    /\ UNCHANGED <<pipeVars, codec>>

(***************************************************************************)
(* Specifications.                                                         *)
(***************************************************************************)
Init == InitWith(PipeSettings)

Next ==
    \/ StartGroup
    \/ \E raw \in PipeLines : TotalLines(data) < MaxLines /\ ProcessLine(raw)
    \/ EndGroup
    \/ Return

\* runs of process_data over every configuration of PipeSettings
Spec == Init /\ [][Next]_vars

InitE2E == InitWith({E2ESettings})

NextE2E ==
    \/ StartGroup
    \/ \E raw \in E2ELines :
          TotalLines(data) < MaxE2ELines /\ ProcessLine(raw)
    \/ EndGroup
    \/ Return

\* runs of process_data in the end-to-end scenario
SpecE2E == InitE2E /\ [][NextE2E]_vars

NextCodec ==
    \/ codec.stage = "idle" /\ \E inp \in CodecLines : CodecParse(inp)
    \/ /\ codec.stage = "idle"
       /\ \E descr \in AllDescrs, comment \in NewComments :
             \E kwargs \in KwargsOf(descr, MaxKwargs) :
                CodecNew(descr, comment, kwargs)
    \/ \E k \in {"F", "E"} : CodecSetArg(k, FloatVal(5500000))
    \/ CodecStr
    \/ CodecReparse
    \/ CodecStrAgain

\* codec sessions: parse or build, format, parse back, format again
SpecCodec == InitE2E /\ [][NextCodec]_vars

InitTrack == InitWith(TrackSettings)

NextTrack ==
    \/ Len(data) < MaxTrackBlocks /\ StartGroup
    \/ \E raw \in TrackLines :
          TotalLines(data) < MaxTrackLines /\ ProcessLine(raw)
    \/ EndGroup
    \/ Return

\* runs of process_data over retractions, primes and Z-hops, with the
\* print-speed processor
SpecTrack == InitTrack /\ [][NextTrack]_vars

InitRetract == InitWith(RetractSettings)

\* the same runs with the retraction-length or the retraction-speed processor
SpecRetract == InitRetract /\ [][NextTrack]_vars

RerunLines == {LineLayer1, LineLayer3, LinePrint, LinePrime, LineTool}

RerunSettings ==
    {Settings("layer", 1, 1, 5,
              OneShotFlags \cup {"change_print_speed_enabled"}),
     Settings("layer", 1, 2, 5, RewriteFlags)}

InitRerun == InitWith(RerunSettings)

NextRerun ==
    \/ first = <<>> /\ StartGroup
    \/ /\ first = <<>>
       /\ \E raw \in RerunLines : TotalLines(data) < MaxLines /\ ProcessLine(raw)
    \/ first = <<>> /\ EndGroup
    \/ first = <<>> /\ Return
    \/ ExecuteAgain
    \/ ReplayGroup
    \/ ReplayLine
    \/ ReplayEnd
    \/ ReplayReturn

\* execute called twice on the same data
SpecRerun == InitRerun /\ [][NextRerun]_vars

InitStep == InitWith(StepSettings)

\* the lines a run of the step scenarios reads, by the detector configured
StepLines == IF tower.step_type = "mm" THEN HeightLines ELSE LayerLines

MaxStepLines ==
    IF tower.step_type = "mm" THEN MaxHeightLines ELSE MaxLayerLines

NextStep ==
    \/ StartGroup
    \/ \E raw \in StepLines :
          TotalLines(data) < MaxStepLines /\ ProcessLine(raw)
    \/ EndGroup
    \/ Return

\* runs of process_data over layers and heights in any order, with either
\* detector and the one-shot processors
SpecStep == InitStep /\ [][NextStep]_vars

NextNormalize ==
    \E current \in NormCurrents, offset \in NormOffsets, step \in NormSteps :
       NormalizeCall(current, offset, step)

\* single calls of normalize
SpecNormalize == InitE2E /\ [][NextNormalize]_vars

InitAll == InitWith(AllSettings)

NextAll ==
    \/ StartGroup
    \/ \E raw \in AllLines :
          TotalLines(data) < MaxAllLines /\ ProcessLine(raw)
    \/ EndGroup
    \/ Return

\* runs of process_data with every processor configured, and the same runs
\* with one processor and with none
SpecAll == InitAll /\ [][NextAll]_vars

NextHead ==
    \/ StartGroup
    \/ \E raw \in HeadLines :
          TotalLines(data) < MaxHeadLines /\ ProcessLine(raw)
    \/ EndGroup
    \/ Return

\* runs of process_data over lines the head follows and lines it cannot parse
SpecHead == InitE2E /\ [][NextHead]_vars

InitFan == InitWith(FanSettings)

\* runs of process_data over layers in any order with the fan processor
SpecFan == InitFan /\ [][NextStep]_vars

(***************************************************************************)
(* Properties of the pipeline.                                             *)
(***************************************************************************)
\* the stripped, non-blank lines of a group, in order
RECURSIVE KeptLines(_)
KeptLines(raws) ==
    IF raws = <<>> THEN <<>>
    ELSE (IF Strip(Head(raws)) = <<>> THEN <<>> ELSE <<Strip(Head(raws))>>)
         \o KeptLines(Tail(raws))

\* the lines the markers of a group put in the output, in order
RECURSIVE EmittedLines(_)
EmittedLines(markers) ==
    IF markers = <<>> THEN <<>>
    ELSE MarkerLines(Head(markers)) \o EmittedLines(Tail(markers))

\* the lines of an output block: the text before its last character, cut at
\* the newlines; a block of one character has no line
OutputLines(text) ==
    IF Len(text) <= 1 THEN <<>>
    ELSE Split(SubSeq(text, 1, Len(text) - 1), "\n")

OneShotOnly ==
    \A i \in 1..Len(processors) : processors[i].kind \in OneShotKinds

InsertedCodes ==
    {SET_FEEDRATE_COMMAND.code, SET_FLOW_COMMAND.code,
     SET_HOTENT_TEMP_COMMAND.code, SET_FAN_SPEED_COMMAND.code,
     SET_LINEAR_ADVANCE_FACTOR.code}

\* a line that is one of the one-shot commands with its argument
IsInsertedCommand(text) ==
    \E c \in InsertedCodes : IsPrefix(c \o <<" ">>, text) /\ Len(text) > Len(c) + 2

\* C1: with only one-shot processors configured, whenever process_data is
\* between groups or has returned there is one output block per input block,
\* in the same order; every output block ends with a newline; its lines are,
\* for each non-blank input line in order, the commands inserted before it
\* and then the stripped line itself, once, and nothing else.
C1_BlocksKeepLines ==
    (OneShotOnly /\ pc \in {"group", "returned"}) =>
        /\ Len(new_data) = Len(data)
        /\ \A g \in 1..Len(new_data) :
            /\ new_data[g] # <<>>
            /\ Last(new_data[g]) = "\n"
            /\ OutputLines(new_data[g]) = EmittedLines(trace[g])
            /\ Len(trace[g]) = Len(KeptLines(data[g]))
            /\ \A i \in 1..Len(trace[g]) :
                /\ trace[g][i].line = KeptLines(data[g])[i]
                /\ trace[g][i].lines_after = <<>>
                /\ \A j \in 1..Len(trace[g][i].lines_before) :
                      IsInsertedCommand(trace[g][i].lines_before[j])

\* a returned run over two blocks with one-shot processors, in which a
\* command was inserted, a blank line was skipped and a line was stripped
C1_Witness ==
    /\ pc = "returned"
    /\ OneShotOnly
    /\ processors # <<>>
    /\ Len(new_data) = 2
    /\ \E g \in 1..Len(trace) : \E i \in 1..Len(trace[g]) :
          trace[g][i].lines_before # <<>>
    /\ \E g \in 1..Len(data) : \E i \in 1..Len(data[g]) :
          Strip(data[g][i]) = <<>>
    /\ \E g \in 1..Len(data) : \E i \in 1..Len(data[g]) :
          Strip(data[g][i]) \notin {<<>>, data[g][i]}

\* the exceptions GCodeCommand.parse raises
ParseErrors == {"InvalidLine", "UnsupportedCommand", "TypeError", "ValueError"}

\* C2: whatever the input lines and the enabled processors, process_data is
\* never ended by a line that fails to parse: no run stops on an exception
\* of GCodeCommand.parse.
C2_NeverAborts == ~(pc = "raised" /\ error \in ParseErrors)

\* the text of M104 S<s>
HotendLine(s) == SET_HOTENT_TEMP_COMMAND.code \o <<" ", "S">> \o NatStr(s)

\* a block with ;LAYER:1, a G1 line, ;LAYER:3 and a G1 line
E2EBlock == <<LineLayer1, LineMoveA, LineLayer3, LineMoveB>>

\* C3: in the end-to-end scenario (layer steps of one layer from layer 1,
\* five steps, hotend temperature from 190 by 10) the command is inserted
\* immediately before the ;LAYER: line that changes the step.  A block with
\* ;LAYER:1, a G1 line, ;LAYER:3 and a G1 line, first of a run, gets M104
\* S190 before ;LAYER:1 and nothing else, its second marker being ignored;
\* when ;LAYER:3 begins the next block, M104 S210 is inserted before it.
\* Every input line is emitted as it is, and only M104 lines are inserted.
C3_InsertsBeforeLayerLine ==
    /\ (Len(new_data) >= 1 /\ data[1] = E2EBlock) =>
          OutputLines(new_data[1]) =
             <<HotendLine(190), LineLayer1, LineMoveA, LineLayer3, LineMoveB>>
    /\ (/\ Len(new_data) >= 2
        /\ data[1] = <<LineLayer1, LineMoveA>>
        /\ data[2] = <<LineLayer3, LineMoveB>>) =>
          /\ OutputLines(new_data[1]) =
                <<HotendLine(190), LineLayer1, LineMoveA>>
          /\ OutputLines(new_data[2]) =
                <<HotendLine(210), LineLayer3, LineMoveB>>
    /\ \A g \in 1..Len(new_data) :
          /\ OutputLines(new_data[g]) = EmittedLines(trace[g])
          /\ Len(trace[g]) = Len(data[g])
          /\ \A i \in 1..Len(trace[g]) :
                /\ trace[g][i].line = data[g][i]
                /\ trace[g][i].lines_after = <<>>
                /\ \A j \in 1..Len(trace[g][i].lines_before) :
                      \E s \in 190..230 :
                         trace[g][i].lines_before[j] = HotendLine(s)

\* the run of the end-to-end scenario on the two-layer block has returned
C3_Witness ==
    /\ pc = "returned"
    /\ Len(new_data) = 1
    /\ data[1] = E2EBlock
    /\ \E i \in 1..Len(trace[1]) : trace[1][i].lines_before # <<>>

\* C3 as stated: the two-layer block gets M104 S190 immediately before the
\* first G1 line of layer 1 and M104 S200 immediately before the first G1
\* line of layer 3, every other line emitted as it is.
C3_InsertsBeforeFirstMove ==
    (Len(new_data) >= 1 /\ data[1] = E2EBlock) =>
        OutputLines(new_data[1]) =
           <<LineLayer1, HotendLine(190), LineMoveA,
             LineLayer3, HotendLine(200), LineMoveB>>

FirstOrNone(tokens) == IF tokens = <<>> THEN <<>> ELSE tokens[1]

\* the code of a line: its first token before any comment, <<>> if none
CodeOfLine(line) == FirstOrNone(NonEmpty(Split(Split(line, ";")[1], " ")))

\* each marker's line is the kept line it was made for, unless that is a G1
\* command
OnlyG1Differ(markers, kept) ==
    \A i \in 1..Len(markers) :
        \/ markers[i].line = kept[i]
        \/ CodeOfLine(kept[i]) = LINEAR_MOTION_EXTRUDED_COMMAND.code

\* C4: under every processor configuration, the line emitted for an input
\* line that is not a G1 command is the stripped input line.
C4_OnlyG1Rewritten ==
    \A g \in 1..Len(trace) : OnlyG1Differ(trace[g], KeptLines(data[g]))

\* a block in which, with the print-speed processor at work in a step, a G1
\* line was rewritten and the G0 line after it was emitted as it is
C4_Witness ==
    /\ \E i \in 1..Len(processors) : processors[i].kind = "PrintSpeed"
    /\ \E g \in 1..Len(trace) :
          /\ Len(trace[g]) = 3
          /\ data[g] = <<LineLayer1, LinePrint, LineTravel>>
          /\ trace[g][2].line # LinePrint
          /\ trace[g][3].line = LineTravel

(***************************************************************************)
(* Properties of the codec.                                                *)
(***************************************************************************)
\* the catalog entry with a code, among all seven
SchemaOf(code) == CHOOSE d \in AllDescrs : d.code = code

\* the arguments of args that the schema arguments name, in the schema's order
RECURSIVE InSchemaOrder(_, _)
InSchemaOrder(arguments, args) ==
    IF arguments = <<>> THEN <<>>
    ELSE (IF Head(arguments).name \in ArgKeys(args)
          THEN <<[k |-> Head(arguments).name,
                  v |-> ArgGet(args, Head(arguments).name)]>>
          ELSE <<>>) \o InSchemaOrder(Tail(arguments), args)

\* the text of a command with its arguments in schema-declared order
CanonicalText(cmd) ==
    cmd.code
    \o ArgsStr(IF cmd.code = <<>> THEN <<>>
               ELSE InSchemaOrder(SchemaOf(cmd.code).arguments, cmd.args))
    \o (IF cmd.comment # <<>> THEN <<";">> \o cmd.comment ELSE <<>>)

\* C5: the text str gives a command, whether the command was parsed, built
\* by new from keyword arguments in any order, or parsed and then given an
\* argument by a processor, has the arguments in the schema-declared order
\* of its command.
C5_SchemaOrder ==
    (codec.stage = "text" /\ codec.text.ok) =>
        codec.text.text = CanonicalText(codec.cmd.cmd)

\* C6: for every catalog command and every schema-valid set of arguments,
\* numbers and flags alike, in any order: formatting the command new built,
\* parsing the text and formatting again all succeed, and the last text has
\* the same argument values in schema-declared order.
C6_RoundTrip ==
    (codec.origin = "new" /\ codec.cmd.ok) =>
        /\ codec.stage \in {"text", "cmd2", "text2"} => codec.text.ok
        /\ codec.stage \in {"cmd2", "text2"} => codec.cmd2.ok
        /\ codec.stage = "text2" =>
              /\ codec.text2.ok
              /\ codec.text2.text = CanonicalText(codec.cmd.cmd)

\* C7: a line that is the code of one of the seven catalog commands,
\* possibly with recognised arguments and a comment, is not refused as
\* unsupported: the lookup by code finds the command.
C7_CatalogLookup ==
    (/\ codec.stage = "cmd"
     /\ codec.origin = "parse"
     /\ codec.line.lead = <<>>
     /\ codec.line.code \in {d.code : d \in AllDescrs}) =>
        /\ codec.cmd.err # "UnsupportedCommand"
        /\ get(codec.line.code) = SchemaOf(codec.line.code)

\* C8: parse raises the invalid-line error when the first character of the
\* line that is not whitespace is none of G, M and ';', and the
\* unsupported-command error when the line starts with G or M and its code
\* is not a code of the catalog; either way it returns no command.
C8_ParseErrors ==
    (codec.stage = "cmd" /\ codec.origin = "parse") =>
        /\ (/\ LStrip(LineOf(codec.line)) # <<>>
            /\ LStrip(LineOf(codec.line))[1] \notin {"G", "M", ";"}) =>
              /\ ~codec.cmd.ok
              /\ codec.cmd.err = "InvalidLine"
              /\ codec.cmd.cmd = NoCommand
        /\ (/\ LineOf(codec.line) # <<>>
            /\ LineOf(codec.line)[1] \in {"G", "M"}
            /\ CodeOfLine(LineOf(codec.line))
                  \notin {d.code : d \in AllDescrs}) =>
              /\ ~codec.cmd.ok
              /\ codec.cmd.err = "UnsupportedCommand"
              /\ codec.cmd.cmd = NoCommand

\* parse has refused M999 as unsupported
C8_Witness ==
    /\ codec.stage = "cmd"
    /\ codec.origin = "parse"
    /\ codec.line.lead = <<>>
    /\ codec.line.code = UnknownCode
    /\ codec.cmd.err = "UnsupportedCommand"

\* C9: parse of a line whose first character is ';' returns a command with
\* no code, no arguments and, as its comment, all the text after the first
\* ';'; str of that command is the line.
C9_CommentLine ==
    (/\ codec.origin = "parse"
     /\ codec.stage \in {"cmd", "text"}
     /\ LineOf(codec.line) # <<>>
     /\ LineOf(codec.line)[1] = ";") =>
        /\ codec.cmd.ok
        /\ codec.cmd.cmd.code = <<>>
        /\ codec.cmd.cmd.args = <<>>
        /\ codec.cmd.cmd.comment = Tail(LineOf(codec.line))
        /\ codec.stage = "text" =>
              /\ codec.text.ok
              /\ codec.text.text = LineOf(codec.line)

\* a token of a G0/G1 line that names a motion argument and gives it a number
RecognisedToken(t) ==
    /\ Len(t) > 1
    /\ t[1] \in ArgNames(LINEAR_MOTION_COMMAND)
    /\ FloatParses(Tail(t))

\* the arguments a set of recognised tokens gives, in schema-declared order
TokenArgs(toks) ==
    InSchemaOrder(MotionArguments,
                  [i \in 1..Len(toks) |->
                      [k |-> toks[i][1], v |-> FloatParse(Tail(toks[i]))]])

\* C10: for a G0/G1 line with recognised argument tokens of distinct
\* letters, in any order, and a trailing comment, parse returns the catalog
\* command of the code, exactly the tokens' arguments with their values and
\* the text after ';' as the comment; str of it is the code, the arguments
\* in schema-declared order, ';' and the comment, whatever the tokens' order.
C10_Permutations ==
    (/\ codec.origin = "parse"
     /\ codec.stage \in {"cmd", "text"}
     /\ ~codec.added
     /\ codec.line.lead = <<>>
     /\ codec.line.code \in {LINEAR_MOTION_COMMAND.code,
                             LINEAR_MOTION_EXTRUDED_COMMAND.code}
     /\ codec.line.comment # <<>>
     /\ codec.line.toks # <<>>
     /\ \A i \in 1..Len(codec.line.toks) : RecognisedToken(codec.line.toks[i])
     /\ \A i, j \in 1..Len(codec.line.toks) :
           i # j => codec.line.toks[i][1] # codec.line.toks[j][1]) =>
        /\ codec.cmd.ok
        /\ codec.cmd.cmd.code = codec.line.code
        /\ CommandOf(codec.cmd.cmd) = SchemaOf(codec.line.code)
        /\ codec.cmd.cmd.args = TokenArgs(codec.line.toks)
        /\ codec.cmd.cmd.comment = Tail(codec.line.comment)
        /\ codec.stage = "text" =>
              /\ codec.text.ok
              /\ codec.text.text =
                    codec.line.code \o ArgsStr(TokenArgs(codec.line.toks))
                    \o codec.line.comment

\* a keyword argument new accepts for a schema: a letter of the schema with a
\* value of the kind the schema declares for it
SchemaValid(descr, kw) ==
    /\ kw.k \in ArgNames(descr)
    /\ kw.v.t = KindOf(descr, kw.k)

\* C11: new raises the invalid-argument error and returns no command when
\* one of the keyword arguments has a letter outside the schema or a value
\* whose kind is not the kind the schema declares for the letter; otherwise
\* it returns a command with the schema's code, exactly the keyword
\* arguments given, and the comment given (empty when none is).
C11_NewChecksArguments ==
    (codec.origin = "new" /\ codec.stage = "cmd") =>
        IF \A i \in 1..Len(codec.kwargs) :
              SchemaValid(codec.descr, codec.kwargs[i])
        THEN /\ codec.cmd.ok
             /\ codec.cmd.cmd.code = codec.descr.code
             /\ codec.cmd.cmd.args = codec.kwargs
             /\ codec.cmd.cmd.comment = codec.comment
        ELSE /\ ~codec.cmd.ok
             /\ codec.cmd.err = "InvalidArgument"
             /\ codec.cmd.cmd = NoCommand

\* new has refused a call whose first keyword argument fits the schema and
\* whose second has a letter of the schema with a value of another kind
C11_Witness ==
    /\ codec.origin = "new"
    /\ codec.stage = "cmd"
    /\ Len(codec.kwargs) = 2
    /\ SchemaValid(codec.descr, codec.kwargs[1])
    /\ codec.kwargs[2].k \in ArgNames(codec.descr)
    /\ codec.kwargs[2].v.t # KindOf(codec.descr, codec.kwargs[2].k)
    /\ ~codec.cmd.ok

(***************************************************************************)
(* Properties of a run across its blocks.                                  *)
(***************************************************************************)
\* C12 as stated: the output block depends only on the block's text and the
\* configuration, so two blocks of one run with the same text, each coming
\* after different blocks, have the same output block.
C12_BlockOutputByTextAlone ==
    \A g, h \in 1..Len(new_data) :
        data[g] = data[h] => new_data[g] = new_data[h]

\* the output lines of a block whose kept lines are kept, processed from
\* no layer, head h and detector det
RECURSIVE BlockLines(_, _, _, _, _), BlockLinesFrom(_, _, _)
BlockLinesFrom(r, rest, procs) ==
    MarkerLines(r.marker) \o BlockLines(rest, r.layer, r.head, r.det, procs)

BlockLines(kept, layer, h, det, procs) ==
    IF kept = <<>> THEN <<>>
    ELSE BlockLinesFrom(process_line(Head(kept), layer, h, det, procs),
                        Tail(kept), procs)

\* C12: the output produced for a block depends only on the block's text,
\* the configuration, and the printer head and step detector as the blocks
\* before it left them; the layer index and the output lines are all that a
\* block boundary resets.  Every output block is the text got by processing
\* the block's lines from no layer and from the head and detector the block
\* began with.
C12_BlockOutputByEntryState ==
    \A g \in 1..Len(new_data) :
        new_data[g] =
            BlockText(BlockLines(KeptLines(data[g]), <<>>, entry[g].head,
                                 entry[g].det, processors))

\* a returned run over two blocks with the same text, whose output blocks
\* differ
C12_Witness ==
    /\ pc = "returned"
    /\ Len(new_data) = 2
    /\ data[1] = data[2]
    /\ new_data[1] # new_data[2]

RECURSIVE AllKept(_)
AllKept(groups) ==
    IF groups = <<>> THEN <<>>
    ELSE KeptLines(Head(groups)) \o AllKept(Tail(groups))

\* p, the outcome of parse, is a G1 command
IsG1(p) == p.ok /\ p.cmd.code = LINEAR_MOTION_EXTRUDED_COMMAND.code

\* p is a G1 command that carries E and none of X, Y, Z
IsFilamentOnly(p) ==
    /\ IsG1(p)
    /\ "E" \in ArgKeys(p.cmd.args)
    /\ ArgKeys(p.cmd.args) \cap {"X", "Y", "Z"} = {}

\* the E of the last G1 line of lines that carries E, 0 when there is none
RECURSIVE LastG1E(_), LastG1EOr(_, _)
LastG1EOr(p, before) ==
    IF IsG1(p) /\ "E" \in ArgKeys(p.cmd.args)
    THEN ArgGet(p.cmd.args, "E").n
    ELSE LastG1E(before)

LastG1E(lines) ==
    IF lines = <<>> THEN 0
    ELSE LastG1EOr(parse(Last(lines)), SubSeq(lines, 1, Len(lines) - 1))

\* this step is an iteration of the line loop on a line that is not blank
ProcessedLine ==
    /\ Len(data') = Len(data)
    /\ data' # data
    /\ Strip(Last(data'[Len(data')])) # <<>>

\* the phase as the edge step at the start of a line leaves it
AfterEdge(phase) ==
    CASE phase = "PRIMING" -> "JUST_PRIMED"
      [] phase = "JUST_PRIMED" -> "NONE"
      [] OTHER -> phase

\* the tracker now is the tracker was after a line whose parse gave p, prev
\* being the E of the last E-carrying G1 line before it
TrackerFollows(p, prev, was, now) ==
    IF IsFilamentOnly(p) /\ ArgGet(p.cmd.args, "E").n < prev
    THEN /\ now.state = "RETRACTING"
         /\ now.last_retract = prev - ArgGet(p.cmd.args, "E").n
    ELSE IF IsFilamentOnly(p) /\ ArgGet(p.cmd.args, "E").n > prev
    THEN /\ now.state = "PRIMING"
         /\ now.last_retract = was.last_retract
    ELSE /\ now.state = AfterEdge(was.state)
         /\ now.last_retract = was.last_retract

\* C14: on a G1 line that carries E and none of X, Y, Z, the tracker
\* compares the new E with the E of the last E-carrying G1 line before it
\* (0 when there is none): when the new E is smaller the phase becomes
\* RETRACTING and the last retraction length becomes their difference; when
\* it is larger the phase becomes PRIMING; when they are equal, when the
\* line carries X, Y or Z, and when the line is not a G1 command, the line
\* leaves the phase as the edge step left it and the last retraction length
\* as it was.
C14_TrackerStep ==
    [][ProcessedLine =>
          TrackerFollows(parse(Strip(Last(data'[Len(data')]))),
                         LastG1E(AllKept(data)),
                         head.retraction, head'.retraction)]_vars

\* the filament went from 20 to 15 on the line just processed: the phase is
\* RETRACTING and the last retraction length is 5
C14_Witness ==
    /\ pc = "line"
    /\ Len(data[Len(data)]) >= 2
    /\ data[Len(data)][Len(data[Len(data)]) - 1] = LineFill
    /\ Last(data[Len(data)]) = LineRetract
    /\ head.retraction.state = "RETRACTING"
    /\ head.retraction.last_retract = 5 * SCALE

\* C15: after a line that left the phase PRIMING, the phase the processors
\* observe on the next processed line is JUST_PRIMED, whatever that line
\* is, and after a line on which they observed JUST_PRIMED they do not
\* observe it again on the next.
C15_JustPrimedOneLine ==
    [][ProcessedLine =>
          /\ head.retraction.state = "PRIMING" =>
                head'.retraction.state = "JUST_PRIMED"
          /\ head.retraction.state = "JUST_PRIMED" =>
                head'.retraction.state # "JUST_PRIMED"]_vars

\* C16: once the phase is RETRACTING, the next G1 line whose E differs from
\* the E the tracker holds ends it: after such a line the phase is not
\* RETRACTING, so that it does not last across the printing moves that
\* follow a retraction.
C16_RetractingEnds ==
    [][(/\ ProcessedLine
        /\ head.retraction.state = "RETRACTING"
        /\ IsG1(parse(Strip(Last(data'[Len(data')]))))
        /\ "E" \in ArgKeys(parse(Strip(Last(data'[Len(data')]))).cmd.args)
        /\ ArgGet(parse(Strip(Last(data'[Len(data')]))).cmd.args, "E").n
              # head.retraction.e) =>
          head'.retraction.state # "RETRACTING"]_vars

\* p is a G0 or G1 command
IsMove(p) ==
    /\ p.ok
    /\ p.cmd.code \in {LINEAR_MOTION_COMMAND.code,
                       LINEAR_MOTION_EXTRUDED_COMMAND.code}

\* the F of the last G0 or G1 line of lines that carries F, 0 when there is
\* none: the feed rate in force after the lines
RECURSIVE LastMoveF(_), LastMoveFOr(_, _)
LastMoveFOr(p, before) ==
    IF IsMove(p) /\ "F" \in ArgKeys(p.cmd.args)
    THEN ArgGet(p.cmd.args, "F").n
    ELSE LastMoveF(before)

LastMoveF(lines) ==
    IF lines = <<>> THEN 0
    ELSE LastMoveFOr(parse(Last(lines)), SubSeq(lines, 1, Len(lines) - 1))

\* the line loop has emitted a line of the current group; the head and the
\* detector are then as the processors saw them on the last line emitted
LineEmitted == pc = "line" /\ trace[Len(trace)] # <<>>

\* the marker of the last line emitted
LastMarker == Last(trace[Len(trace)])

\* the input line it was made for
LastKept == Last(KeptLines(data[Len(data)]))

\* the kept lines of the run before that line
EarlierKept == SubSeq(AllKept(data), 1, Len(AllKept(data)) - 1)

\* the configured processors are all of the kinds given, and there is one
OnlyKinds(kinds) ==
    /\ processors # <<>>
    /\ \A i \in 1..Len(processors) : processors[i].kind \in kinds

\* value(step) of the ramp the settings give a processor kind
RampValue(kind, step) ==
    tower.ramps[kind].value + (step - 1) * tower.ramps[kind].step

\* r is the outcome of parsing a line that is G1 with the argument F = f alone
IsRestoreLine(r, f) ==
    /\ IsG1(r)
    /\ ArgKeys(r.cmd.args) = {"F"}
    /\ ArgGet(r.cmd.args, "F").n = f

\* marker m, whose line parses to q, carries F = f and is followed by one
\* line, which restores the feed rate restore
SpeedRewritten(m, q, f, restore) ==
    /\ IsG1(q)
    /\ "F" \in ArgKeys(q.cmd.args)
    /\ ArgGet(q.cmd.args, "F").n = f
    /\ Len(m.lines_after) = 1
    /\ IsRestoreLine(parse(m.lines_after[1]), restore)

\* C17: with the retraction-speed processor alone and a current step above
\* 0, a G1 line emitted in phase RETRACTING or PRIMING has its F set to
\* (start + (step - 1) * increment) * 60 and is followed by exactly one
\* line, G1 with F alone, whose F is the feed rate that was in force before
\* the retraction or prime line.
C17_SpeedThenRestore ==
    (/\ LineEmitted
     /\ OnlyKinds({"RetractionSpeed"})
     /\ height_detector.current_step > 0
     /\ head.retraction.state \in {"RETRACTING", "PRIMING"}
     /\ IsG1(parse(LastKept))) =>
        SpeedRewritten(LastMarker, parse(LastMarker.line),
                       RampValue("RetractionSpeed",
                                 height_detector.current_step) * 60,
                       LastMoveF(EarlierKept))

\* the arguments a and b agree on the letter k
SameArg(a, b, k) ==
    /\ (k \in ArgKeys(a)) = (k \in ArgKeys(b))
    /\ k \in ArgKeys(a) => ArgGet(a, k) = ArgGet(b, k)

\* marker m, made for a line that parses to p and holding a line that parses
\* to q, has the E and the F of the input line and no line after it
KeepsFilamentAndFeed(m, p, q) ==
    /\ m.lines_after = <<>>
    /\ q.ok
    /\ SameArg(p.cmd.args, q.cmd.args, "E")
    /\ SameArg(p.cmd.args, q.cmd.args, "F")

\* C18: with the retraction-length or the retraction-speed processor alone,
\* a G1 line that is not a filament-only move (it carries X, Y or Z, or no
\* E) is emitted with the E and the F it had, or with none if it had none,
\* and with no line appended after it.
C18_OnlyFilamentMoves ==
    (/\ LineEmitted
     /\ OnlyKinds({"RetractionLength", "RetractionSpeed"})
     /\ IsG1(parse(LastKept))
     /\ ~IsFilamentOnly(parse(LastKept))) =>
        KeepsFilamentAndFeed(LastMarker, parse(LastKept),
                             parse(LastMarker.line))

\* the arguments b are the arguments a with the letter k given the value n
\* and nothing else changed
OnlyArgSet(a, b, k, n) ==
    /\ ArgKeys(b) = ArgKeys(a) \cup {k}
    /\ ArgGet(b, k).n = n
    /\ \A l \in ArgKeys(a) \ {k} : ArgGet(b, l) = ArgGet(a, l)

\* marker m, made for a G1 line that parses to p and holding a line that
\* parses to q, has E = e, the other arguments of the input line, and no
\* line before or after it
LengthRewritten(m, p, q, e) ==
    /\ m.lines_before = <<>>
    /\ m.lines_after = <<>>
    /\ IsG1(q)
    /\ OnlyArgSet(p.cmd.args, q.cmd.args, "E", e)

\* C19: with the retraction-length processor alone: when the current step
\* is 0 the line is emitted as it is.  When the current step is above 0 and
\* the phase is RETRACTING, a G1 line is emitted with E = head E + last
\* retraction length - value(step) and its other arguments as they were;
\* on the retraction move itself (filament-only, E below the E of the last
\* E-carrying G1 line before it) that is the E before the retraction minus
\* value(step).
C19_RetractionLength ==
    (LineEmitted /\ OnlyKinds({"RetractionLength"})) =>
        /\ height_detector.current_step = 0 => LastMarker = Marker(LastKept)
        /\ (/\ height_detector.current_step > 0
            /\ head.retraction.state = "RETRACTING"
            /\ IsG1(parse(LastKept))) =>
              LengthRewritten(LastMarker, parse(LastKept),
                              parse(LastMarker.line),
                              head.e.n + head.retraction.last_retract
                              - RampValue("RetractionLength",
                                          height_detector.current_step))
        /\ (/\ height_detector.current_step > 0
            /\ IsFilamentOnly(parse(LastKept))
            /\ ArgGet(parse(LastKept).cmd.args, "E").n
                  < LastG1E(EarlierKept)) =>
              LengthRewritten(LastMarker, parse(LastKept),
                              parse(LastMarker.line),
                              LastG1E(EarlierKept)
                              - RampValue("RetractionLength",
                                          height_detector.current_step))

\* in step 3, after printing to E20, the retraction to E15 was emitted as a
\* retraction to 20 - 7 = 13
C19_Witness ==
    /\ LineEmitted
    /\ OnlyKinds({"RetractionLength"})
    /\ data[Len(data)] = <<LineLayer3, LineFill, LineRetract>>
    /\ height_detector.current_step = 3
    /\ LastMarker.line =
          <<"G", "1", " ", "F", "1", "5", "0", "0", ".", "0", " ",
            "E", "1", "3", ".", "0">>

\* marker m, made for the line that parses to p, is what the print-speed
\* processor alone leaves in step step and phase phase, feed being the feed
\* rate the input lines up to this one set
PrintSpeedFollows(m, line, p, step, phase, feed) ==
    /\ m.lines_before = <<>>
    /\ m.lines_after = <<>>
    /\ IF /\ step > 0
          /\ IsG1(p)
          /\ \/ phase = "JUST_PRIMED"
             \/ phase = "NONE" /\ "F" \in ArgKeys(p.cmd.args)
       THEN /\ IsG1(parse(m.line))
            /\ OnlyArgSet(p.cmd.args, parse(m.line).cmd.args, "F",
                          ScaledFeedrate(feed, RampValue("PrintSpeed", step)))
       ELSE m.line = line

\* C20: with the print-speed processor alone, a line is emitted rewritten
\* if and only if the current step is above 0, the line is a G1 command,
\* and the phase is JUST_PRIMED, or NONE with the line carrying F; every
\* other line is emitted as it is.  The rewritten line has F = feed / 100 *
\* value(step), feed being the F of the last G0 or G1 input line that
\* carries one (0 when there is none), this line included: the feed rate of
\* the input, never of a rewritten line.
C20_PrintSpeed ==
    (LineEmitted /\ OnlyKinds({"PrintSpeed"})) =>
        PrintSpeedFollows(LastMarker, LastKept, parse(LastKept),
                          height_detector.current_step,
                          head.retraction.state, LastMoveF(AllKept(data)))

\* in step 3 (120 percent) the printing move after a prime, seen in phase
\* JUST_PRIMED, was emitted with F 900 / 100 * 120 = 1080
C20_Witness ==
    /\ LineEmitted
    /\ OnlyKinds({"PrintSpeed"})
    /\ data[Len(data)] = <<LineLayer3, LineUnretract, LineFill>>
    /\ head.retraction.state = "JUST_PRIMED"
    /\ LastMarker.line =
          <<"G", "1", " ", "F", "1", "0", "8", "0", ".", "0", " ",
            "X", "1", ".", "0", " ", "E", "2", "0", ".", "0">>

(***************************************************************************)
(* Properties of the one-shot processors and the height detector.          *)
(***************************************************************************)
\* the command a one-shot processor of the kind inserts for the step: its
\* code, and value(step) as a whole number (the fan's as a share of 255 of
\* at most 100 percent), the linear-advance factor as a decimal number
ExpectedInsert(kind, step) ==
    LET v == RampValue(kind, step)
    IN  CASE kind = "Speed" -> <<"M", "2", "2", "0", " ", "S">> \o IntStr(v)
          [] kind = "Flow" -> <<"M", "2", "2", "1", " ", "S">> \o IntStr(v)
          [] kind = "HotendTemp" ->
                <<"M", "1", "0", "4", " ", "S">> \o IntStr(v)
          [] kind = "Fan" ->
                <<"M", "1", "0", "6", " ", "S">>
                \o NatStr((Min(100, v \div SCALE) * 255) \div 100)
          [] kind = "LinearAdvance" ->
                <<"M", "9", "0", "0", " ", "K">> \o FloatStr(v)

\* C21: with one-shot processors alone, the marker of every emitted line
\* has the input line as its line and no line after it; before it, on a
\* line on which just_reached_new_step is true, one command per configured
\* processor, in configuration order, carrying start + (step - 1) *
\* increment in the kind of the command's argument, and nothing on any
\* other line.
C21_OneShotInserts ==
    (LineEmitted /\ OnlyKinds(OneShotKinds)) =>
        /\ LastMarker.line = LastKept
        /\ LastMarker.lines_after = <<>>
        /\ LastMarker.lines_before =
              IF height_detector.just_reached_new_step
              THEN [i \in 1..Len(processors) |->
                      ExpectedInsert(processors[i].kind,
                                     height_detector.current_step)]
              ELSE <<>>

\* the five one-shot processors on the line that reached step 2: 110
\* percent, 200 degrees, the fan at 255 and the factor 0.3
C21_Witness ==
    /\ LineEmitted
    /\ Len(processors) = 5
    /\ height_detector.just_reached_new_step
    /\ height_detector.current_step = 2
    /\ LastMarker.lines_before =
          << <<"M", "2", "2", "0", " ", "S", "1", "1", "0">>,
             <<"M", "2", "2", "1", " ", "S", "1", "1", "0">>,
             <<"M", "1", "0", "4", " ", "S", "2", "0", "0">>,
             <<"M", "1", "0", "6", " ", "S", "2", "5", "5">>,
             <<"M", "9", "0", "0", " ", "K", "0", ".", "3">> >>

\* C22: every command a one-shot processor inserts carries value(s) of its
\* ramp for a step s from 1 to the step count: none is inserted for step 0
\* or for a negative step.
C22_InsertsOnlyInSteps ==
    (LineEmitted /\ OnlyKinds(OneShotKinds)) =>
        \A j \in 1..Len(LastMarker.lines_before) :
           \E s \in 1..height_detector.count :
              LastMarker.lines_before[j] =
                  ExpectedInsert(processors[j].kind, s)


\* this step is an iteration of the line loop, on a line that is not blank,
\* in which HeightDetector.handle returned
DetectorHandled == ProcessedLine /\ error' # "ZeroDivisionError"

\* C23: after HeightDetector.handle on a line, just_reached_new_step is
\* true exactly when a layer is known and the step committed on this line
\* differs from the step committed on the line before; with no layer known
\* the step is 0 and the flag is false.
C23_EdgeFlag ==
    [][DetectorHandled =>
          /\ height_detector'.just_reached_new_step
                <=> /\ current_layer' # <<>>
                    /\ height_detector'.current_step
                          # height_detector.current_step
          /\ current_layer' = <<>> =>
                /\ height_detector'.current_step = 0
                /\ ~height_detector'.just_reached_new_step]_vars

\* the line before the last reached a step above 0 and had commands
\* inserted; on the last line the step is the same and the flag is false
C23_Witness ==
    /\ LineEmitted
    /\ Len(trace[Len(trace)]) >= 2
    /\ trace[Len(trace)][Len(trace[Len(trace)]) - 1].lines_before # <<>>
    /\ current_layer # <<>>
    /\ height_detector.current_step > 0
    /\ ~height_detector.just_reached_new_step


\* C24: with a step count of at least 1 and a step size of at least 1, the
\* current step is from 0 to the step count after every processed line, with
\* either detector.
C24_StepInRange ==
    (height_detector.count >= 1 /\ height_detector.step_size >= SCALE) =>
        /\ height_detector.current_step >= 0
        /\ height_detector.current_step <= height_detector.count

\* the millimetre detector with 1 mm steps from 1 mm and two steps, on the
\* line that moved to Z = 3: the third band, held at step 2
C24_Witness ==
    /\ LineEmitted
    /\ LastKept = LineZ3
    /\ current_layer # <<>>
    /\ height_detector.variant = "mm"
    /\ height_detector.step_size = SCALE
    /\ head.z.n = 3 * SCALE
    /\ height_detector.count = 2
    /\ height_detector.current_step = 2


\* C25: for every offset, step size and step count the settings admit,
\* HeightDetector.handle returns on every line and leaves the current step
\* from 0 to the step count.
C25_SchemaSettings ==
    /\ error # "ZeroDivisionError"
    /\ height_detector.current_step >= 0
    /\ height_detector.current_step <= height_detector.count


\* ceil(a / b) for b > 0
CeilDiv(a, b) == -((-a) \div b)

\* C26: for a step size above 0, normalize(current, offset, stepSize) is
\* ceil(max(0, current - offset + 1) / stepSize), for fractional heights,
\* offsets and step sizes as for whole layer indices.
C26_NormalizeIsCeiling ==
    calc.stage = "done" =>
        calc.result =
            CeilDiv(Max(0, calc.current - calc.offset + SCALE), calc.step)


\* the step of layer index L for a detector's offset, step size and count
LayerStep(det, L) ==
    Min(det.count,
        CeilDiv(Max(0, L * SCALE - det.offset + SCALE), det.step_size))

\* C27: with the layer detector and a step size above 0, after every line of
\* a block whose layer index L is known the current step is min(count,
\* ceil(max(0, L - offset + 1) / stepSize)); with offset 1, step size 2 and
\* count 5, layers 1 and 2 are step 1, layer 3 is step 2, layer 10 is step 5.
C27_LayerStep ==
    (/\ pc = "line"
     /\ current_layer # <<>>
     /\ height_detector.variant = "layer"
     /\ height_detector.step_size > 0) =>
        /\ height_detector.current_step =
              LayerStep(height_detector, current_layer[1])
        /\ (/\ height_detector.offset = SCALE
            /\ height_detector.step_size = 2 * SCALE
            /\ height_detector.count = 5) =>
               /\ current_layer[1] \in {1, 2} =>
                     height_detector.current_step = 1
               /\ current_layer[1] = 3 => height_detector.current_step = 2
               /\ current_layer[1] = 10 => height_detector.current_step = 5

\* a block of layer 10 after a block of layer 2: step 5, and the line after
\* the layer comment is in the same step
C27_Witness ==
    /\ pc = "line"
    /\ Len(data) = 2
    /\ data[1] = <<LineLayer2>>
    /\ data[2] = <<LineLayer10, LineMoveA>>
    /\ current_layer = <<10>>
    /\ height_detector.variant = "layer"
    /\ height_detector.current_step = 5


\* the layer index of a block: that of its first layer comment, <<>> if none
RECURSIVE FirstLayer(_)
FirstLayer(lines) ==
    IF lines = <<>> THEN <<>>
    ELSE IF check_layer(Head(lines)) # <<>> THEN check_layer(Head(lines))
    ELSE FirstLayer(Tail(lines))

\* the layer indices of the blocks that have one, in order
RECURSIVE BlockLayers(_)
BlockLayers(groups) ==
    IF groups = <<>> THEN <<>>
    ELSE FirstLayer(KeptLines(Head(groups))) \o BlockLayers(Tail(groups))

\* the Z of the G0 and G1 lines that carry one, in order
RECURSIVE HeightsOf(_)
HeightsOf(lines) ==
    IF lines = <<>> THEN <<>>
    ELSE (IF /\ IsMove(parse(Head(lines)))
             /\ "Z" \in ArgKeys(parse(Head(lines)).cmd.args)
          THEN <<ArgGet(parse(Head(lines)).cmd.args, "Z").n>>
          ELSE <<>>)
         \o HeightsOf(Tail(lines))

NeverDecreases(q) == \A i \in 1..(Len(q) - 1) : q[i] <= q[i + 1]

\* the layer indices (layer detector) or the Z heights, from the initial 0,
\* (millimetre detector) of the input never decrease
InputNeverDecreases(groups) ==
    IF tower.step_type = "mm"
    THEN NeverDecreases(<<0>> \o HeightsOf(AllKept(groups)))
    ELSE NeverDecreases(BlockLayers(groups))

\* C28 as stated, for step sizes of at least 1: over a run whose layer
\* indices or Z heights never decrease, the current step never decreases
\* from one processed line to the next.
C28_StepNeverDecreases ==
    [][(/\ DetectorHandled
        /\ height_detector.step_size >= SCALE
        /\ InputNeverDecreases(data')) =>
          height_detector'.current_step >= height_detector.current_step]_vars

\* C28 amended: with a step size of at least 1, over a run whose layer
\* indices or Z heights never decrease, on a line on which a layer is known
\* the current step is not below the step of the line before, and on a line
\* on which no layer is known it is 0.
C28_StepFallsOnlyToZero ==
    [][(/\ DetectorHandled
        /\ height_detector.step_size >= SCALE
        /\ InputNeverDecreases(data')) =>
          IF current_layer' = <<>>
          THEN height_detector'.current_step = 0
          ELSE height_detector'.current_step
                  >= height_detector.current_step]_vars

\* layers in rising order: a block of layer 3 (step 2), then a block whose
\* first line is not a layer comment (step 0) and whose second line is the
\* comment of layer 10 (step 5)
C28_Witness ==
    /\ pc = "line"
    /\ data = << <<LineLayer3>>, <<LineMoveA, LineLayer10>> >>
    /\ InputNeverDecreases(data)
    /\ height_detector.step_size = 2 * SCALE
    /\ trace[2][2].lines_before # <<>>
    /\ height_detector.current_step = 5


\* C29: with the millimetre detector, on a line on which a layer is known:
\* when the head's Z equals the Z the detector last observed, the current
\* step is the step the line before committed and just_reached_new_step is
\* false; when it differs, the step is min(count, normalize(Z, offset,
\* step size)), normalize being HeightDetector.normalize.
C29_RecomputedOnZChange ==
    [][(/\ DetectorHandled
        /\ height_detector.variant = "mm"
        /\ current_layer' # <<>>) =>
          IF head'.z.n = height_detector.last_z
          THEN /\ height_detector'.current_step = height_detector.current_step
               /\ ~height_detector'.just_reached_new_step
          ELSE height_detector'.current_step =
                  Min(height_detector.count,
                      normalize(head'.z.n, height_detector.offset,
                                height_detector.step_size))]_vars

\* 1 mm steps from 1 mm: the move to Z = 1 reached step 1, and the move
\* after it, which leaves Z alone, is in step 1 with the flag false
C29_Witness ==
    /\ LineEmitted
    /\ data = << <<LineLayer1, LineHop, LineMoveA>> >>
    /\ height_detector.variant = "mm"
    /\ height_detector.step_size = SCALE
    /\ trace[1][2].lines_before # <<>>
    /\ height_detector.last_z = head.z.n
    /\ height_detector.current_step = 1
    /\ ~height_detector.just_reached_new_step


\* C30, for step sizes of at least 1: with the millimetre detector, after
\* every line on which a layer is known the current step is min(count,
\* normalize(Z of the head, offset, step size)).
C30_StepFollowsHeight ==
    (/\ pc = "line"
     /\ current_layer # <<>>
     /\ height_detector.variant = "mm"
     /\ height_detector.step_size >= SCALE) =>
        height_detector.current_step =
            Min(height_detector.count,
                normalize(head.z.n, height_detector.offset,
                          height_detector.step_size))


(***************************************************************************)
(* Properties of the line loop: the layer of a block, the order of the     *)
(* updates, and what the tracked state depends on.                         *)
(***************************************************************************)
\* the line is a layer comment: ;LAYER: and a digit
IsLayerComment(line) ==
    /\ Len(line) > Len(LayerPrefix)
    /\ SubSeq(line, 1, Len(LayerPrefix)) = LayerPrefix
    /\ line[Len(LayerPrefix) + 1] \in Digits

\* the line the iteration of this step reads, stripped
LineRead == Strip(Last(data'[Len(data')]))

\* C31: a block starts with no layer known; after every line of the block
\* the layer is the index of the first layer comment among the lines read so
\* far, none if there is none, whatever layer comments follow the first.  So
\* with the layer detector just_reached_new_step is true only on a line that
\* is a layer comment read while no layer was known: the first of the block.
C31_LayerOncePerBlock ==
    [][/\ (pc = "group" /\ pc' = "line") => current_layer' = <<>>
       /\ ProcessedLine =>
             /\ current_layer' = FirstLayer(KeptLines(data'[Len(data')]))
             /\ current_layer # <<>> => current_layer' = current_layer
             /\ current_layer = <<>> =>
                   (current_layer' # <<>> <=> IsLayerComment(LineRead))
             /\ (/\ height_detector.variant = "layer"
                 /\ height_detector'.just_reached_new_step) =>
                   /\ current_layer = <<>>
                   /\ IsLayerComment(LineRead)]_vars

\* a block of a move, the comment of layer 1 and the comment of layer 3, with
\* the layer detector: the layer is 1, the command was inserted before the
\* first comment and none before the second
C31_Witness ==
    /\ LineEmitted
    /\ data = << <<LineMoveA, LineLayer1, LineLayer3>> >>
    /\ height_detector.variant = "layer"
    /\ current_layer = <<1>>
    /\ trace[1][1].lines_before = <<>>
    /\ trace[1][2].lines_before # <<>>
    /\ trace[1][3].lines_before = <<>>
    /\ ~height_detector.just_reached_new_step


\* the one-shot kinds in the order of _create_processor
OneShotOrder == <<"Speed", "Flow", "HotendTemp", "Fan", "LinearAdvance">>

\* the marker emitted by this step
MarkerEmitted == Last(trace'[Len(trace')])

\* C32: an iteration of the line loop updates the head with the input line,
\* then the detector with the updated head, and then runs the processors, in
\* configuration order, on the updated head and detector; it appends to the
\* output the marker's lines_before, its line and its lines_after, in that
\* order.  With every processor configured, the commands inserted on a line
\* that reaches a step are those of the one-shot kinds in configuration
\* order.  The head's temperature changes only on an input M104 line: a line
\* the processors inserted is never read by the head.
C32_LineOrder ==
    [][ProcessedLine =>
          /\ head' = head_handle(head, LineRead)
          /\ head'.temp # head.temp =>
                CodeOfLine(LineRead) = SET_HOTENT_TEMP_COMMAND.code
          /\ DetectorHandled =>
                height_detector' =
                    detector_handle(height_detector, head', current_layer').det
          /\ pc' = "line" =>
                /\ MarkerEmitted =
                      run_processors(processors, Marker(LineRead),
                                     height_detector', head').marker
                /\ new_lines' = new_lines \o MarkerEmitted.lines_before
                                \o <<MarkerEmitted.line>>
                                \o MarkerEmitted.lines_after
                /\ (/\ Len(processors) = 8
                    /\ height_detector'.just_reached_new_step) =>
                      MarkerEmitted.lines_before =
                         [i \in 1..5 |->
                            ExpectedInsert(OneShotOrder[i],
                                           height_detector'.current_step)]]_vars

\* millimetre steps with every processor: the move to Z = 1 reached step 1
\* on its own line and had the five commands inserted before it; the
\* filament-only move at feed rate 1500 was rewritten and is followed by the
\* line that restores the feed rate; the head holds no temperature
C32_Witness ==
    /\ LineEmitted
    /\ Len(processors) = 8
    /\ height_detector.variant = "mm"
    /\ data = << <<LineLayer1, LineHop, LineRetract>> >>
    /\ Len(trace[1][2].lines_before) = 5
    /\ LastMarker.line # LineRetract
    /\ Len(LastMarker.lines_after) = 1
    /\ new_lines = EmittedLines(trace[1])
    /\ Len(new_lines) = 9
    /\ head.temp = IntVal(0)


(***************************************************************************)
(* Properties of the head on lines it cannot parse.                        *)
(***************************************************************************)
\* the lines of HeadLines that GCodeCommand.parse rejects
RejectedLines == {LineTool, LineReset, LineBadValue, LineNoValue}

\* C33: on a line that fails to parse in PrinterHead.handle (an invalid
\* line, an unsupported code, a bad or missing argument value) the run goes
\* on without error, and the head is as before the line in x, y, z, e,
\* feed rate, temperature and the tracker's filament positions and last
\* retraction length; the phase is as the edge step leaves it.
C33_FailedLineKeepsHead ==
    [][(ProcessedLine /\ LineRead \in RejectedLines) =>
          /\ pc' = "line"
          /\ error' = ""
          /\ head' = [head EXCEPT
                         !.retraction.state = AfterEdge(head.retraction.state)]]_vars

\* after a prime, a G1 line with X7 and a bad E: x is still the initial 0
\* and e the prime's 2, and the phase went on from PRIMING to JUST_PRIMED
C33_Witness ==
    /\ LineEmitted
    /\ data = << <<LinePrime, LineBadValue>> >>
    /\ head.x = IntVal(0)
    /\ head.e = FloatVal(2 * SCALE)
    /\ head.retraction.state = "JUST_PRIMED"
    /\ error = ""


(***************************************************************************)
(* Properties of runs with every processor configured.                     *)
(***************************************************************************)
\* C34: over input made of comments and catalog commands whose arguments
\* are numbers, no run of process_data is ended by an exception, whatever
\* the processors configured, also when a retraction or a prime comes
\* before any line that carries a feed rate.
C34_WellFormedCompletes == pc # "raised" /\ error = ""


\* the head and the detector after the lines of a block, from the layer, the
\* head and the detector before them: each line is read by the head and then
\* by the detector, and by nothing else
RECURSIVE TrackBlock(_, _, _, _)
TrackBlock(lines, layer, h, det) ==
    IF lines = <<>> THEN [head |-> h, det |-> det]
    ELSE LET known == IF layer = <<>> THEN check_layer(Head(lines)) ELSE layer
             h1 == head_handle(h, Head(lines))
         IN  TrackBlock(Tail(lines), known, h1,
                        detector_handle(det, h1, known).det)

\* the head and the detector after the blocks of a run: every block starts
\* with no layer and with the head and the detector as the block before
\* left them
RECURSIVE TrackRun(_, _, _)
TrackRun(groups, h, det) ==
    IF groups = <<>> THEN [head |-> h, det |-> det]
    ELSE LET t == TrackBlock(KeptLines(Head(groups)), <<>>, h, det)
         IN  TrackRun(Tail(groups), t.head, t.det)

\* the settings with no processor enabled
NoProcessors(st) == [st EXCEPT !.enabled = {}]

\* C35: at every point of a run, under every processor configuration, the
\* head and the detector are what the stripped input lines read so far
\* leave, block after block, from the head and the detector as constructed:
\* they depend on the input and on the detector's settings, not on the
\* processors configured nor on the lines these rewrite or insert, and no
\* block starts them afresh.
C35_TrackingIgnoresProcessors ==
    [head |-> head, det |-> height_detector] =
        TrackRun(data, PrinterHeadInit,
                 create_height_detector(NoProcessors(tower)))

\* every processor, layer steps: in the first block the filament-only move
\* was rewritten and the feed rate restored by an inserted line; in the
\* second block the head still has the filament position and the feed rate
\* of the input line of the first block, and the detector its step
C35_Witness ==
    /\ LineEmitted
    /\ Len(processors) = 8
    /\ data = << <<LineLayer1, LineRetract>>, <<LineLayer1>> >>
    /\ trace[1][2].line # LineRetract
    /\ trace[1][2].lines_after # <<>>
    /\ head.e = FloatVal(15 * SCALE)
    /\ head.feedrate = FloatVal(1500 * SCALE)
    /\ height_detector.current_step = 1
    /\ ~height_detector.just_reached_new_step


(***************************************************************************)
(* Properties of the fan processor.                                        *)
(***************************************************************************)
\* the text of M106 S<s>
FanLine(s) == SET_FAN_SPEED_COMMAND.code \o <<" ", "S">> \o NatStr(s)

\* C36: with the fan processor alone, the command inserted on a line that
\* reaches step s is M106 with S = trunc(min(100, value(s)) * 255 / 100), and
\* that S is from 0 to 255, whatever the ramp.
C36_FanWithinRange ==
    (/\ LineEmitted
     /\ OnlyKinds({"Fan"})
     /\ height_detector.just_reached_new_step
     /\ height_detector.current_step >= 1) =>
        \E n \in 0..255 :
           /\ LastMarker.lines_before = <<FanLine(n)>>
           /\ n * 100 <=
                 Min(100, RampValue("Fan", height_detector.current_step)
                             \div SCALE) * 255
           /\ Min(100, RampValue("Fan", height_detector.current_step)
                          \div SCALE) * 255 < (n + 1) * 100


(***************************************************************************)
(* Properties of parse on repeated and unknown argument letters.           *)
(***************************************************************************)
\* token i is the first of the tokens with its letter
IsFirstOfLetter(toks, i) == \A j \in 1..(i - 1) : toks[j][1] # toks[i][1]

\* the token's text after its letter converts to the kind
TokenConverts(kind, t) ==
    \/ kind = "none"
    \/ /\ Len(t) > 1
       /\ IF kind = "int" THEN IntParses(Tail(t)) ELSE FloatParses(Tail(t))

\* what the token's text after its letter converts to
TokenValue(kind, t) ==
    CASE kind = "none" -> NoneVal
      [] kind = "int" -> IntParse(Tail(t))
      [] OTHER -> FloatParse(Tail(t))

\* C37: on a line whose code parse finds in the catalog, only the first
\* token of each letter of the command's schema counts: parse returns a
\* command exactly when each of these converts, and the command then has,
\* for each such letter, the value of that first token, and no other
\* argument.  Later tokens with the same letter and tokens with a letter
\* outside the schema change neither the outcome nor the arguments.
C37_FirstTokenWins ==
    (/\ codec.stage = "cmd"
     /\ codec.origin = "parse"
     /\ ~codec.added
     /\ codec.line.lead = <<>>
     /\ codec.line.code # <<>>
     /\ get(codec.line.code) # NoDescr) =>
        LET toks == codec.line.toks
            descr == get(codec.line.code)
            counted == {i \in 1..Len(toks) :
                           /\ toks[i][1] \in ArgNames(descr)
                           /\ IsFirstOfLetter(toks, i)}
        IN  /\ codec.cmd.ok <=>
                  \A i \in counted :
                     TokenConverts(KindOf(descr, toks[i][1]), toks[i])
            /\ codec.cmd.ok =>
                  /\ ArgKeys(codec.cmd.cmd.args) = {toks[i][1] : i \in counted}
                  /\ \A i \in counted :
                        ArgGet(codec.cmd.cmd.args, toks[i][1]) =
                           TokenValue(KindOf(descr, toks[i][1]), toks[i])

\* G1 X10 X5 was parsed: X is 10
C37_Witness ==
    /\ codec.stage = "cmd"
    /\ codec.origin = "parse"
    /\ codec.line.code = LINEAR_MOTION_EXTRUDED_COMMAND.code
    /\ codec.line.toks = <<TokenPool[3], TokenPool[4]>>
    /\ codec.cmd.ok
    /\ ArgKeys(codec.cmd.cmd.args) = {"X"}
    /\ ArgGet(codec.cmd.cmd.args, "X") = FloatVal(10 * SCALE)


(***************************************************************************)
(* Properties of the two processors that rewrite F.                        *)
(***************************************************************************)
\* the configured processor of a kind
ProcessorOf(kind) ==
    processors[CHOOSE i \in 1..Len(processors) : processors[i].kind = kind]

\* what the processors procs, in that order, leave of the input line of the
\* last line emitted, for the head and the detector of that line
AloneOnLast(procs) ==
    run_processors(procs, Marker(LastKept), height_detector, head)

\* C38: with the print-speed and the retraction-speed processor both
\* configured, on every G1 line emitted in a step, what the two leave of the
\* input line, in either order, is what one of them alone leaves: in phase
\* RETRACTING or PRIMING the print-speed processor leaves the line as it is,
\* in phase JUST_PRIMED or NONE the retraction-speed processor does, and in
\* the run itself a line is followed by a feed-rate restore only in phase
\* RETRACTING or PRIMING.
C38_OneSpeedRewrite ==
    (/\ LineEmitted
     /\ \E i \in 1..Len(processors) : processors[i].kind = "PrintSpeed"
     /\ \E i \in 1..Len(processors) : processors[i].kind = "RetractionSpeed"
     /\ height_detector.current_step # 0
     /\ IsG1(parse(LastKept))) =>
        LET ps == ProcessorOf("PrintSpeed")
            rs == ProcessorOf("RetractionSpeed")
            phase == head.retraction.state
        IN  /\ AloneOnLast(<<ps, rs>>) \in {AloneOnLast(<<ps>>), AloneOnLast(<<rs>>)}
            /\ AloneOnLast(<<rs, ps>>) \in {AloneOnLast(<<ps>>), AloneOnLast(<<rs>>)}
            /\ phase \in {"RETRACTING", "PRIMING"} =>
                  AloneOnLast(<<ps>>) = Handled(Marker(LastKept))
            /\ phase \in {"JUST_PRIMED", "NONE"} =>
                  AloneOnLast(<<rs>>) = Handled(Marker(LastKept))
            /\ LastMarker.lines_after # <<>> =>
                  phase \in {"RETRACTING", "PRIMING"}

\* every processor, layer steps: the filament-only move was given the
\* retraction speed and a restore line in phase PRIMING; the printing move
\* after it, in phase JUST_PRIMED, was rewritten by the print-speed processor
\* and has no restore line
C38_Witness ==
    /\ LineEmitted
    /\ Len(processors) = 8
    /\ data = << <<LineLayer1, LineRetract, LineFill>> >>
    /\ height_detector.current_step = 1
    /\ trace[1][2].lines_after # <<>>
    /\ head.retraction.state = "JUST_PRIMED"
    /\ LastMarker.line # LineFill
    /\ LastMarker.lines_after = <<>>

=============================================================================
